---- MODULE Spec2Model ----
(***************************************************************************)
(* SREC Connect server (server/routes.ts, server/storage.ts): the          *)
(* in-memory entity store (MemStorage), the HTTP handlers that mutate it,  *)
(* and the live-connection registry (the `clients` Map of the WebSocket    *)
(* server).                                                                *)
(*                                                                         *)
(* Every `await` of the source is a suspension point: a handler is cut     *)
(* into one action per synchronous section, and sections of different      *)
(* requests interleave.  JavaScript arrays are heap objects (`arrays`):    *)
(* user.clubs and club.members are references, so that an in-place push    *)
(* is seen by every holder of the reference, as in the source.             *)
(***************************************************************************)
EXTENDS Integers, Sequences, FiniteSets, TLC

(* ---------------------------------------------------------------- bounds *)
\* HTTP requests issued in one run.
MaxReq == 2
\* Live connections opened in one run.
MaxConn == 2

(* ------------------------------------------------------------ value sets *)
\* JavaScript's undefined, where an id, an email or a key is expected.
Undefined == "undefined"

\* Ids createUser hands out (randomUUID), in the order it hands them out;
\* the users Map iterates in this order.
UserOrder == <<"u1", "u2", "u3">>
UserIds == {UserOrder[i] : i \in 1..Len(UserOrder)}
\* The ids createUser hands out after those, and the insertion order of the
\* users Map.
FreshOrder == <<"u4", "u5", "u6", "u7">>
InsertionOrder == UserOrder \o FreshOrder

\* initializeDefaultClubs: two of the five default clubs are enough to tell
\* "the club of the request" from "another club".
ClubNames == {"Coding Club", "Robotics Club"}
\* Names a request may carry: the stored clubs and one that does not exist.
ClubInputs == ClubNames \cup {"Chess Club"}

RsvpKinds == {"attending", "interested"}
\* `type` of an RSVP body is an unchecked string.
RsvpInputs == RsvpKinds \cup {"maybe"}

Conns == 1..MaxConn

(* ---------------------------------------------------------------- tokens *)
\* A JWT: present or not, signed with JWT_SECRET or not, expired or not, and
\* its payload.  A claim the payload does not carry reads as undefined.
\* jwt.sign({ userId }, JWT_SECRET, { expiresIn: "7d" })
SessionToken(u) ==
  [present |-> TRUE, signed |-> TRUE, expired |-> FALSE,
   payload |-> [userId |-> u, email |-> Undefined]]
\* jwt.sign({ email }, JWT_SECRET, { expiresIn: "24h" })
VerifyToken(e) ==
  [present |-> TRUE, signed |-> TRUE, expired |-> FALSE,
   payload |-> [userId |-> Undefined, email |-> e]]
\* A session token past its expiry, a token signed with another key, and no
\* token at all.
ExpiredToken(u) == [SessionToken(u) EXCEPT !.expired = TRUE]
ForgedToken(u) == [SessionToken(u) EXCEPT !.signed = FALSE]
NoToken == [SessionToken(Undefined) EXCEPT !.present = FALSE, !.signed = FALSE]
\* A session token signed, with the same JWT_SECRET, by an earlier run of the
\* server for a user of that run's store: it is valid for seven days, and
\* the store of this run does not hold its user.
StaleUser == "u0"
StaleToken == SessionToken(StaleUser)

\* bcrypt.hash(password, 12) and bcrypt.compare(password, stored): a hash is
\* not the password, and a stored string that is no hash matches nothing.
Hash(password) == <<"bcrypt", password>>
Compare(password, stored) == stored = Hash(password)

\* jwt.verify(token, JWT_SECRET): throws unless signed and unexpired.
JwtVerifyThrows(t) == ~t.signed \/ t.expired

VARIABLES
  users,          \* MemStorage.users: id -> User
  clubs,          \* MemStorage.clubs, by (unique) name
  arrays,         \* heap of JS arrays: reference -> contents
  events,         \* MemStorage.events, in insertion order; id = index
  notifications,  \* MemStorage.notifications, in insertion order; id = index
  now,            \* the clock read by new Date()
  clients,        \* the registry Map, entries in insertion order
  conn,           \* readyState of each connection, as the server sees it
  sent,           \* frames the server sent on each connection
  lastAuth,       \* per registry key, the connection that registered last
  superseded,     \* connections not yet closed whose registration another
                  \* connection replaced
  wsLast,         \* the last WebSocket message the server handled
  hook,           \* the client's useWebSocket hook: refs, sockets and timers
  card,           \* the client's event card: its rsvpMutation
  tokens,         \* tokens the server has signed
  req             \* HTTP requests so far: position, locals and response

vars == <<users, clubs, arrays, events, notifications, now, clients, conn,
          sent, lastAuth, superseded, wsLast, hook, card, tokens, req>>

storeVars == <<users, clubs, arrays, events, notifications, now>>
liveVars == <<clients, conn, sent, lastAuth, superseded, wsLast, hook, card>>

(* --------------------------------------------------------- array helpers *)
\* Array.prototype.includes
Includes(s, x) == \E i \in 1..Len(s) : s[i] = x

\* Array.prototype.filter(y => y !== x): a new array
RECURSIVE FilterOut(_, _)
FilterOut(s, x) ==
  IF s = <<>> THEN <<>>
  ELSE IF Head(s) = x THEN FilterOut(Tail(s), x)
       ELSE <<Head(s)>> \o FilterOut(Tail(s), x)

\* Array.prototype.push on the array behind a reference: in place
HeapPush(h, ref, x) == [h EXCEPT ![ref] = Append(@, x)]

\* Object spread { ...a, ...b }
Spread(a, b) ==
  [f \in DOMAIN a \cup DOMAIN b |-> IF f \in DOMAIN b THEN b[f] ELSE a[f]]

(* ------------------------------------------------------------ the store *)
\* A lookup returns <<>> for undefined and <<object>> for an object found.
Found(o) == o # <<>>

\* MemStorage.getUser
GetUser(us, id) == IF id \in DOMAIN us THEN <<us[id]>> ELSE <<>>

\* MemStorage.getUserByEmail: the first user, in insertion order, with that
\* email.
GetUserByEmail(us, email) ==
  LET hits == {i \in 1..Len(InsertionOrder) :
                 InsertionOrder[i] \in DOMAIN us /\ us[InsertionOrder[i]].email = email}
  IN IF hits = {} THEN <<>>
     ELSE <<us[InsertionOrder[CHOOSE i \in hits : \A j \in hits : i <= j]]>>

\* MemStorage.createUser: the fresh id is the next of the insertion order,
\* clubs is a new empty array (reference ref), createdAt the clock.
CreateUser(us, insertUser, ref, date) ==
  LET id == InsertionOrder[Cardinality(DOMAIN us) + 1] IN
  [k \in DOMAIN us \cup {id} |->
     IF k \in DOMAIN us THEN us[k]
     ELSE Spread(insertUser, [id |-> id, clubs |-> ref, createdAt |-> date])]

\* MemStorage.getClubByName
GetClubByName(cs, name) == IF name \in DOMAIN cs THEN <<cs[name]>> ELSE <<>>

\* MemStorage.updateUser: the stored user merged with the updates
UpdateUser(us, id, updates) ==
  IF id \notin DOMAIN us THEN us
  ELSE [us EXCEPT ![id] = Spread(@, updates)]

(* -------------------------------------------------------------- requests *)
\* What both sides of the membership relation hold, by value.
MemberView ==
  [uc |-> [u \in DOMAIN users |-> arrays[users[u].clubs]],
   cm |-> [c \in DOMAIN clubs |-> arrays[clubs[c].members]]]

\* A request record: its input (op, tok, club, event, kind, valid, title,
\* email, password, body, target), the synchronous section it resumes at
\* (pc), req.user, the locals of the handler and of the store call in
\* progress (luser, lclub, lrows, result, ev, nid), the response (status,
\* list,
\* and the token in
\* its body if there is one), and the membership relation as it was when
\* the request arrived (pre).
NewReq(op, tok) ==
  [op |-> op, tok |-> tok, pc |-> "auth", status |-> 0, user |-> <<>>,
   club |-> "", event |-> 0, kind |-> "", valid |-> TRUE,
   title |-> "", email |-> "", password |-> "", body |-> <<>>, target |-> 0,
   luser |-> <<>>, lclub |-> <<>>, lrows |-> <<>>, result |-> FALSE,
   list |-> <<>>,
   ev |-> 0, nid |-> 0, issued |-> NoToken, pre |-> MemberView]

\* authenticateToken up to its await: the bearer token is checked and the
\* user looked up.
Authenticate(r0) ==
  IF ~r0.tok.present THEN [r0 EXCEPT !.pc = "done", !.status = 401]
  ELSE IF JwtVerifyThrows(r0.tok) THEN [r0 EXCEPT !.pc = "done", !.status = 403]
  ELSE [r0 EXCEPT !.pc = "authed",
                  !.user = GetUser(users, r0.tok.payload.userId)]

\* A request arrives and authenticateToken runs up to `await getUser`.
Arrive(r0) ==
  /\ Len(req) < MaxReq
  /\ req' = Append(req, Authenticate(r0))

\* authenticateToken after its await: 401 when the subject is no stored user.
Rejected(r) ==
  /\ req[r].pc = "authed"
  /\ ~Found(req[r].user)
  /\ req' = [req EXCEPT ![r].pc = "done", ![r].status = 401]
  /\ UNCHANGED <<storeVars, liveVars, tokens>>

\* authenticateToken calls next(): the handler of `op` starts with req.user.
Authed(r, op) ==
  /\ req[r].pc = "authed"
  /\ req[r].op = op
  /\ Found(req[r].user)

\* req.user.id
Uid(r) == req[r].user[1].id

\* Handlers that answer 200 when the store call returned true and 404 when it
\* returned false, after `await storage.<call>`.
Respond(r) ==
  /\ req[r].pc = "respond"
  /\ req' = [req EXCEPT ![r].pc = "done",
                        ![r].status = IF req[r].result THEN 200 ELSE 404]
  /\ UNCHANGED <<storeVars, liveVars, tokens>>

(* ------------------------------------------------- POST /clubs/:name/join *)
HttpJoin(tok, name) ==
  /\ Arrive([NewReq("join", tok) EXCEPT !.club = name])
  /\ UNCHANGED <<storeVars, liveVars, tokens>>

\* joinClub, `await this.getUser(userId)`
JoinGetUser(r) ==
  /\ Authed(r, "join")
  /\ req' = [req EXCEPT ![r].pc = "join_club",
                        ![r].luser = GetUser(users, Uid(r))]
  /\ UNCHANGED <<storeVars, liveVars, tokens>>

\* joinClub, `await this.getClubByName(clubName)`
JoinGetClub(r) ==
  /\ req[r].pc = "join_club"
  /\ req' = [req EXCEPT ![r].pc = "join_user",
                        ![r].lclub = GetClubByName(clubs, req[r].club)]
  /\ UNCHANGED <<storeVars, liveVars, tokens>>

\* JoinMembersWrite, were joinClub to push the user id without looking for
\* it in the member array.
JoinMembersWriteAlways(h, cs, r) ==
  LET club == req[r].lclub[1] IN
  <<HeapPush(h, club.members, Uid(r)),
    [cs EXCEPT ![club.name] = Spread(club, [members |-> club.members])]>>

\* joinClub's second half: unless the club's member array (the one read at
\* the start) has the user id, the id is pushed onto it and the club read at
\* the start is written back with it.  The pair <<arrays, clubs>> after it.
JoinMembersWrite(h, cs, r) ==
  LET club == req[r].lclub[1] IN
  IF Includes(h[club.members], Uid(r)) THEN <<h, cs>>
  ELSE <<HeapPush(h, club.members, Uid(r)),
         [cs EXCEPT ![club.name] = Spread(club, [members |-> club.members])]>>

\* JoinUser, were joinClub to return false for a missing user only: the
\* name is pushed and the user updated before club.members throws and the
\* handler's catch answers 500.
JoinUserNoClubCheck(r) ==
  /\ req[r].pc = "join_user"
  /\ UNCHANGED <<events, notifications, now, liveVars, tokens>>
  /\ IF ~Found(req[r].luser)
     THEN /\ req' = [req EXCEPT ![r].pc = "respond", ![r].result = FALSE]
          /\ UNCHANGED <<users, clubs, arrays>>
     ELSE LET userClubs == req[r].luser[1].clubs IN
          IF ~Found(req[r].lclub)
          THEN /\ arrays' = IF Includes(arrays[userClubs], req[r].club) THEN arrays
                             ELSE HeapPush(arrays, userClubs, req[r].club)
               /\ users' = IF Includes(arrays[userClubs], req[r].club) THEN users
                            ELSE UpdateUser(users, Uid(r), [clubs |-> userClubs])
               /\ req' = [req EXCEPT ![r].pc = "done", ![r].status = 500]
               /\ UNCHANGED clubs
          ELSE IF ~Includes(arrays[userClubs], req[r].club)
          THEN /\ arrays' = HeapPush(arrays, userClubs, req[r].club)
               /\ users' = UpdateUser(users, Uid(r), [clubs |-> userClubs])
               /\ req' = [req EXCEPT ![r].pc = "join_members"]
               /\ UNCHANGED clubs
          ELSE LET w == JoinMembersWrite(arrays, clubs, r) IN
               /\ arrays' = w[1]
               /\ clubs' = w[2]
               /\ req' = [req EXCEPT ![r].pc = "respond", ![r].result = TRUE]
               /\ UNCHANGED users

\* joinClub from the null check to `await this.updateUser`; when the user
\* already lists the club there is no await and the section runs to return.
JoinUser(r) ==
  /\ req[r].pc = "join_user"
  /\ UNCHANGED <<events, notifications, now, liveVars, tokens>>
  /\ IF ~Found(req[r].luser) \/ ~Found(req[r].lclub)
     THEN /\ req' = [req EXCEPT ![r].pc = "respond", ![r].result = FALSE]
          /\ UNCHANGED <<users, clubs, arrays>>
     ELSE LET userClubs == req[r].luser[1].clubs IN
          IF ~Includes(arrays[userClubs], req[r].club)
          THEN /\ arrays' = HeapPush(arrays, userClubs, req[r].club)
               /\ users' = UpdateUser(users, Uid(r), [clubs |-> userClubs])
               /\ req' = [req EXCEPT ![r].pc = "join_members"]
               /\ UNCHANGED clubs
          ELSE LET w == JoinMembersWrite(arrays, clubs, r) IN
               /\ arrays' = w[1]
               /\ clubs' = w[2]
               /\ req' = [req EXCEPT ![r].pc = "respond", ![r].result = TRUE]
               /\ UNCHANGED users

\* joinClub after `await this.updateUser`
JoinMembers(r) ==
  /\ req[r].pc = "join_members"
  /\ LET w == JoinMembersWrite(arrays, clubs, r) IN
       /\ arrays' = w[1]
       /\ clubs' = w[2]
  /\ req' = [req EXCEPT ![r].pc = "respond", ![r].result = TRUE]
  /\ UNCHANGED <<users, events, notifications, now, liveVars, tokens>>

(* ------------------------------------------------ POST /clubs/:name/leave *)
HttpLeave(tok, name) ==
  /\ Arrive([NewReq("leave", tok) EXCEPT !.club = name])
  /\ UNCHANGED <<storeVars, liveVars, tokens>>

\* leaveClub, `await this.getUser(userId)`
LeaveGetUser(r) ==
  /\ Authed(r, "leave")
  /\ req' = [req EXCEPT ![r].pc = "leave_club",
                        ![r].luser = GetUser(users, Uid(r))]
  /\ UNCHANGED <<storeVars, liveVars, tokens>>

\* leaveClub, `await this.getClubByName(clubName)`
LeaveGetClub(r) ==
  /\ req[r].pc = "leave_club"
  /\ req' = [req EXCEPT ![r].pc = "leave_user",
                        ![r].lclub = GetClubByName(clubs, req[r].club)]
  /\ UNCHANGED <<storeVars, liveVars, tokens>>

\* leaveClub from the null check to `await this.updateUser`: the filtered
\* club list is a new array.
LeaveUser(r) ==
  /\ req[r].pc = "leave_user"
  /\ UNCHANGED <<clubs, events, notifications, now, liveVars, tokens>>
  /\ IF ~Found(req[r].luser) \/ ~Found(req[r].lclub)
     THEN /\ req' = [req EXCEPT ![r].pc = "respond", ![r].result = FALSE]
          /\ UNCHANGED <<users, arrays>>
     ELSE /\ arrays' = Append(arrays,
                         FilterOut(arrays[req[r].luser[1].clubs], req[r].club))
          /\ users' = UpdateUser(users, Uid(r), [clubs |-> Len(arrays) + 1])
          /\ req' = [req EXCEPT ![r].pc = "leave_members"]

\* LeaveMembers, were leaveClub to write the member list back as it read it.
LeaveMembersUnfiltered(r) ==
  /\ req[r].pc = "leave_members"
  /\ LET club == req[r].lclub[1] IN
       /\ arrays' = Append(arrays, arrays[club.members])
       /\ clubs' = [clubs EXCEPT
                      ![club.name] = Spread(club, [members |-> Len(arrays) + 1])]
  /\ req' = [req EXCEPT ![r].pc = "respond", ![r].result = TRUE]
  /\ UNCHANGED <<users, events, notifications, now, liveVars, tokens>>

\* leaveClub after `await this.updateUser`: the filtered member list is a new
\* array, written back with the club read at the start.
LeaveMembers(r) ==
  /\ req[r].pc = "leave_members"
  /\ LET club == req[r].lclub[1] IN
       /\ arrays' = Append(arrays, FilterOut(arrays[club.members], Uid(r)))
       /\ clubs' = [clubs EXCEPT
                      ![club.name] = Spread(club, [members |-> Len(arrays) + 1])]
  /\ req' = [req EXCEPT ![r].pc = "respond", ![r].result = TRUE]
  /\ UNCHANGED <<users, events, notifications, now, liveVars, tokens>>

(* ------------------------------------------------------------- events *)
\* An event as the store holds it.  description, date, venue, image and
\* createdAt are carried through untouched by every operation and left out.
\* MemStorage.createEvent: both lists empty; the fresh id (randomUUID) is the
\* event's position in the Map.
CreateEvent(evs, insertEvent) ==
  Append(evs, Spread(insertEvent,
                     [id |-> Len(evs) + 1,
                      type |-> IF insertEvent.type = Undefined THEN "college"
                               ELSE insertEvent.type,
                      attendees |-> <<>>, interested |-> <<>>]))

\* RsvpEvent, were rsvpEvent to filter the user out of the list of `type`
\* only.
RsvpEventOwnListOnly(evs, userId, eventId, type) ==
  [evs EXCEPT ![eventId] =
     Spread(@, [attendees |-> IF type = "attending"
                              THEN Append(FilterOut(@.attendees, userId), userId)
                              ELSE @.attendees,
                interested |-> IF type = "attending"
                               THEN @.interested
                               ELSE Append(FilterOut(@.interested, userId), userId)])]

\* RsvpEvent, were rsvpEvent to push without filtering.
RsvpEventNoFilter(evs, userId, eventId, type) ==
  [evs EXCEPT ![eventId] =
     Spread(@, [attendees |-> IF type = "attending"
                              THEN Append(@.attendees, userId)
                              ELSE @.attendees,
                interested |-> IF type = "attending"
                               THEN @.interested
                               ELSE Append(@.interested, userId)])]

\* MemStorage.rsvpEvent on an event that exists: the user is filtered out of
\* both lists and pushed onto the one of `type`.
RsvpEvent(evs, userId, eventId, type) ==
  LET newAttendees == FilterOut(evs[eventId].attendees, userId)
      newInterested == FilterOut(evs[eventId].interested, userId)
  IN [evs EXCEPT ![eventId] =
        Spread(@, [attendees |-> IF type = "attending"
                                 THEN Append(newAttendees, userId)
                                 ELSE newAttendees,
                   interested |-> IF type = "attending"
                                  THEN newInterested
                                  ELSE Append(newInterested, userId)])]

\* UnrsvpEvent, were unrsvpEvent to filter the attendees only.
UnrsvpEventAttendeesOnly(evs, userId, eventId) ==
  [evs EXCEPT ![eventId] =
     Spread(@, [attendees |-> FilterOut(@.attendees, userId)])]

\* MemStorage.unrsvpEvent on an event that exists
UnrsvpEvent(evs, userId, eventId) ==
  [evs EXCEPT ![eventId] =
     Spread(@, [attendees |-> FilterOut(@.attendees, userId),
                interested |-> FilterOut(@.interested, userId)])]

\* MemStorage.getEvents: every event with the lengths of its two lists
GetEvents(evs) ==
  [i \in DOMAIN evs |->
     Spread(evs[i], [attendeeCount |-> Len(evs[i].attendees),
                     interestedCount |-> Len(evs[i].interested)])]

(* ------------------------------------------------------------ GET /events *)
HttpListEvents(tok) ==
  /\ Arrive(NewReq("listevents", tok))
  /\ UNCHANGED <<storeVars, liveVars, tokens>>

\* The handler: storage.getEvents(), and isAttending and isInterested of
\* req.user.id added to each event.
ListEventsExec(r) ==
  /\ Authed(r, "listevents")
  /\ LET evs == GetEvents(events) IN
       req' = [req EXCEPT
                 ![r].pc = "done", ![r].status = 200,
                 ![r].list =
                   [i \in DOMAIN evs |->
                      Spread(evs[i],
                             [isAttending |-> Includes(evs[i].attendees, Uid(r)),
                              isInterested |-> Includes(evs[i].interested, Uid(r))])]]
  /\ UNCHANGED <<storeVars, liveVars, tokens>>

(* --------------------------------------------- POST/DELETE /events/:id/rsvp *)
HttpRsvp(tok, eventId, type) ==
  /\ Arrive([NewReq("rsvp", tok) EXCEPT !.event = eventId, !.kind = type])
  /\ UNCHANGED <<storeVars, liveVars, tokens>>

\* The handler up to `await storage.rsvpEvent`: 400 for a type that is neither
\* attending nor interested; rsvpEvent has no await and runs whole.
RsvpExec(r) ==
  /\ Authed(r, "rsvp")
  /\ UNCHANGED <<users, clubs, arrays, notifications, now, liveVars, tokens>>
  /\ IF req[r].kind \notin RsvpKinds
     THEN /\ req' = [req EXCEPT ![r].pc = "done", ![r].status = 400]
          /\ UNCHANGED events
     ELSE IF req[r].event \notin DOMAIN events
     THEN /\ req' = [req EXCEPT ![r].pc = "respond", ![r].result = FALSE]
          /\ UNCHANGED events
     ELSE /\ events' = RsvpEvent(events, Uid(r), req[r].event, req[r].kind)
          /\ req' = [req EXCEPT ![r].pc = "respond", ![r].result = TRUE]

HttpUnrsvp(tok, eventId) ==
  /\ Arrive([NewReq("unrsvp", tok) EXCEPT !.event = eventId])
  /\ UNCHANGED <<storeVars, liveVars, tokens>>

\* The handler up to `await storage.unrsvpEvent`, which runs whole.
UnrsvpExec(r) ==
  /\ Authed(r, "unrsvp")
  /\ UNCHANGED <<users, clubs, arrays, notifications, now, liveVars, tokens>>
  /\ IF req[r].event \notin DOMAIN events
     THEN /\ req' = [req EXCEPT ![r].pc = "respond", ![r].result = FALSE]
          /\ UNCHANGED events
     ELSE /\ events' = UnrsvpEvent(events, Uid(r), req[r].event)
          /\ req' = [req EXCEPT ![r].pc = "respond", ![r].result = TRUE]

(* ------------------------------------------------------- the event card *)
\* The card before a click: no mutation has run.  user and tok are the
\* logged-in user and the token apiRequest sends, event the card's event,
\* isAttending and isInterested the card's props, r the request awaited.
CardIdle ==
  [phase |-> "idle", tok |-> NoToken, user |-> "", event |-> 0, type |-> "",
   isAttending |-> FALSE, isInterested |-> FALSE, r |-> 0, outcome |-> ""]

\* The second condition of mutationFn: the click is not on the answer the
\* user already has.
CardPosts(c) ==
  ~((c.isAttending /\ c.type = "attending") \/ (c.isInterested /\ c.type = "interested"))

\* handleRSVP(type) on the card of event e, rendered from the store as it is:
\* mutationFn runs to its first await, the DELETE when the user has an answer
\* and the POST otherwise.
CardMutate(u, e, type) ==
  /\ card.phase \in {"idle", "settled"}
  /\ LET c == [CardIdle EXCEPT !.tok = SessionToken(u), !.user = u, !.event = e,
                               !.type = type,
                               !.isAttending = Includes(events[e].attendees, u),
                               !.isInterested = Includes(events[e].interested, u),
                               !.r = Len(req) + 1] IN
       IF c.isAttending \/ c.isInterested
       THEN /\ Arrive([NewReq("unrsvp", c.tok) EXCEPT !.event = e])
            /\ card' = [c EXCEPT !.phase = "deleting"]
       ELSE /\ Arrive([NewReq("rsvp", c.tok) EXCEPT !.event = e, !.kind = type])
            /\ card' = [c EXCEPT !.phase = "posting"]
  /\ UNCHANGED <<storeVars, clients, conn, sent, lastAuth, superseded, wsLast,
                 hook, tokens>>

\* mutationFn after `await apiRequest('DELETE', ...)`: the POST follows as a
\* second request unless the click was on the answer the user had; a DELETE
\* that was not answered 200 ends the mutation in onError.
CardAfterDelete ==
  /\ card.phase = "deleting"
  /\ req[card.r].pc = "done"
  /\ IF req[card.r].status # 200
     THEN /\ card' = [card EXCEPT !.phase = "settled", !.outcome = "error"]
          /\ UNCHANGED req
     ELSE IF CardPosts(card)
     THEN /\ Arrive([NewReq("rsvp", card.tok) EXCEPT !.event = card.event,
                                                      !.kind = card.type])
          /\ card' = [card EXCEPT !.phase = "posting", !.r = Len(req) + 1]
     ELSE /\ card' = [card EXCEPT !.phase = "settled", !.outcome = "success"]
          /\ UNCHANGED req
  /\ UNCHANGED <<storeVars, clients, conn, sent, lastAuth, superseded, wsLast,
                 hook, tokens>>

\* mutationFn after `await apiRequest('POST', ...)`, then onSuccess or
\* onError, and onSettled.
CardAfterPost ==
  /\ card.phase = "posting"
  /\ req[card.r].pc = "done"
  /\ card' = [card EXCEPT !.phase = "settled",
                          !.outcome = IF req[card.r].status = 200 THEN "success"
                                      ELSE "error"]
  /\ UNCHANGED <<storeVars, clients, conn, sent, lastAuth, superseded, wsLast,
                 hook, tokens, req>>

(* ------------------------------------------------------- notifications *)
\* MemStorage.createNotification: unread, stamped with the clock; the fresh
\* id (randomUUID) is the row's position in the Map.
CreateNotification(ns, insertNotification, date) ==
  Append(ns, Spread(insertNotification,
                    [id |-> Len(ns) + 1, read |-> FALSE, createdAt |-> date]))

\* Array.prototype.sort((a, b) => b.createdAt - a.createdAt), which is
\* stable: row x goes before the first row older than it.
RECURSIVE InsertByDate(_, _)
InsertByDate(sorted, x) ==
  IF sorted = <<>> THEN <<x>>
  ELSE IF Head(sorted).createdAt < x.createdAt THEN <<x>> \o sorted
       ELSE <<Head(sorted)>> \o InsertByDate(Tail(sorted), x)

RECURSIVE SortNewestFirst(_)
SortNewestFirst(rows) ==
  IF rows = <<>> THEN <<>>
  ELSE InsertByDate(SortNewestFirst(SubSeq(rows, 1, Len(rows) - 1)), rows[Len(rows)])

\* GetNotifications, were getNotifications to filter and not to sort.
GetNotificationsUnsorted(ns, userId) ==
  SelectSeq(ns, LAMBDA n : n.userId = userId)

\* MemStorage.getNotifications: the rows of userId, newest first.
GetNotifications(ns, userId) ==
  SortNewestFirst(SelectSeq(ns, LAMBDA n : n.userId = userId))

\* MemStorage.markNotificationRead on a row that exists.
MarkNotificationRead(ns, id) == [ns EXCEPT ![id] = Spread(@, [read |-> TRUE])]

\* The forEach of markAllNotificationsRead, were it to write every stored
\* row.
MarkRowsReadEveryRow(ns, rows) ==
  [i \in DOMAIN ns |-> Spread(ns[i], [read |-> TRUE])]

\* The forEach of markAllNotificationsRead: each row of the list it was
\* given is written back, as it is in the list, with read set.
MarkRowsRead(ns, rows) ==
  [i \in DOMAIN ns |->
     IF \E k \in 1..Len(rows) : rows[k].id = i
     THEN Spread(rows[CHOOSE k \in 1..Len(rows) : rows[k].id = i], [read |-> TRUE])
     ELSE ns[i]]

\* `${event.title} has been scheduled`
ScheduledMessage(title) == <<title, " has been scheduled">>

(* ---------------------------------------------- live-connection registry *)
\* What a registry key can be: decoded.userId of a verified token.
RegistryKeys == UserIds \cup {StaleUser, Undefined}

\* Map.get: <<>> or <<connection>>
MapGet(m, k) ==
  LET hits == {i \in 1..Len(m) : m[i].key = k}
  IN IF hits = {} THEN <<>> ELSE <<m[CHOOSE i \in hits : TRUE].ws>>

\* MapSet, were a key already present to keep its value.
MapSetKeepsFirst(m, k, v) ==
  IF \E i \in 1..Len(m) : m[i].key = k THEN m
  ELSE Append(m, [key |-> k, ws |-> v])

\* Map.set: a key already present keeps its place and takes the new value; a
\* new key goes last.
MapSet(m, k, v) ==
  IF \E i \in 1..Len(m) : m[i].key = k
  THEN [i \in 1..Len(m) |-> IF m[i].key = k THEN [key |-> k, ws |-> v] ELSE m[i]]
  ELSE Append(m, [key |-> k, ws |-> v])

\* The entries of m without the one at position i.
RemoveAt(m, i) == SubSeq(m, 1, i - 1) \o SubSeq(m, i + 1, Len(m))

\* The close handler's loop: the first entry, in insertion order, whose value
\* is this connection is deleted, and the loop breaks.
Unregister(m, w) ==
  LET hits == {i \in 1..Len(m) : m[i].ws = w}
  IN IF hits = {} THEN m
     ELSE RemoveAt(m, CHOOSE i \in hits : \A j \in hits : i <= j)

\* Messages a client may send: a frame that is not JSON, a JSON frame of
\* another type, and an auth frame with or without a token.
NoMessage == [ws |-> 0, kind |-> "", token |-> NoToken]
Malformed == [kind |-> "malformed", token |-> NoToken]
OtherFrame == [kind |-> "other", token |-> NoToken]
AuthFrame(t) == [kind |-> "auth", token |-> t]

\* wss.on("connection"): the message and close handlers are attached.
\* Connections are numbered in the order they open.
WsConnect(w) ==
  /\ conn[w] = "idle"
  /\ \A v \in Conns : v < w => conn[v] # "idle"
  /\ conn' = [conn EXCEPT ![w] = "open"]
  /\ UNCHANGED <<storeVars, clients, sent, lastAuth, superseded, wsLast, hook, card, tokens, req>>

\* ws.close() by the server: an open connection starts closing.
ServerClose(cs, w) == IF cs[w] = "open" THEN [cs EXCEPT ![w] = "closing"] ELSE cs

\* The registry after an auth frame whose token verified.
Register(m, decoded, w) == MapSet(m, decoded.userId, w)

\* The connection whose registration under key k is replaced when w
\* registers under k, if there is one.
Replaced(m, k, w) == {m[i].ws : i \in {j \in 1..Len(m) : m[j].key = k /\ m[j].ws # w}}

\* ws.on("message"): frames keep arriving until the close event.  Only an
\* auth frame with a token does anything: the token is verified and the
\* connection registered under decoded.userId, or the connection is closed.
OnMessage(w, m) ==
  /\ conn[w] \in {"open", "closing"}
  /\ UNCHANGED <<storeVars, sent, tokens, req>>
  /\ IF m.kind = "auth" /\ m.token.present
     THEN IF JwtVerifyThrows(m.token)
          THEN /\ conn' = ServerClose(conn, w)
               /\ UNCHANGED <<clients, lastAuth, superseded>>
          ELSE /\ clients' = Register(clients, m.token.payload, w)
               /\ lastAuth' = [lastAuth EXCEPT ![m.token.payload.userId] = w]
               /\ superseded' = superseded \cup Replaced(clients, m.token.payload.userId, w)
               /\ UNCHANGED conn
     ELSE UNCHANGED <<clients, conn, lastAuth, superseded>>

\* A frame is handled.
WsMessage(w, m) == OnMessage(w, m) /\ UNCHANGED <<wsLast, hook, card>>

\* A frame is handled, and remembered as the last one handled.
WsMessageSeen(w, m) ==
  /\ OnMessage(w, m)
  /\ wsLast' = [ws |-> w, kind |-> m.kind, token |-> m.token]
  /\ UNCHANGED <<hook, card>>

\* ws.on("close"): the connection is closed, by either end, and unregistered.
WsClose(w) ==
  /\ conn[w] \in {"open", "closing"}
  /\ conn' = [conn EXCEPT ![w] = "closed"]
  /\ clients' = Unregister(clients, w)
  /\ superseded' = superseded \ {w}
  /\ UNCHANGED <<storeVars, sent, lastAuth, wsLast, hook, card, tokens, req>>

\* JSON.stringify({ type: "notification", data: notification })
Frame(notification) == [type |-> "notification", data |-> notification]

\* BroadcastNotification, were broadcastNotification not to look at
\* client.readyState.
BroadcastNotificationAnyState(out, userId, notification) ==
  LET client == MapGet(clients, userId) IN
  IF Found(client)
  THEN [out EXCEPT ![client[1]] = Append(@, Frame(notification))]
  ELSE out

\* broadcastNotification: the frame goes out on the connection registered for
\* userId if there is one and it is open.  The connections' outboxes after it.
BroadcastNotification(out, userId, notification) ==
  LET client == MapGet(clients, userId) IN
  IF Found(client) /\ conn[client[1]] = "open"
  THEN [out EXCEPT ![client[1]] = Append(@, Frame(notification))]
  ELSE out

(* -------------------------------------------------------- the client hook *)
\* use-websocket.tsx: maxReconnectAttempts, and the base and the ceiling of
\* the reconnect delay in ms.
MaxReconnectAttempts == 5
BaseDelay == 1000
DelayCap == 30000
\* Sockets the client may create in a run.
MaxSocks == 7

\* Math.pow(2, n)
RECURSIVE Pow2(_)
Pow2(n) == IF n = 0 THEN 1 ELSE 2 * Pow2(n - 1)

\* Math.min(1000 * Math.pow(2, reconnectAttempts.current), 30000)
Delay(n) == IF BaseDelay * Pow2(n) < DelayCap THEN BaseDelay * Pow2(n) ELSE DelayCap

\* The hook before its effect runs: ws.current null, reconnectAttempts 0, no
\* timer.  socks is the readyState of every WebSocket the hook created, cur
\* is ws.current (0 for null), timers are the setTimeout calls made, ref is
\* reconnectTimeoutRef.current (0 for undefined), tries counts the sockets
\* created by a reconnect timer.
HookIdle ==
  [phase |-> "initial", cur |-> 0, attempts |-> 0, isConnected |-> FALSE,
   socks |-> <<>>, timers |-> <<>>, ref |-> 0, tries |-> 0]

\* connect(): nothing when ws.current is open, else a new WebSocket becomes
\* ws.current.
ConnectCall(h) ==
  IF h.cur # 0 /\ h.socks[h.cur] = "open" THEN h
  ELSE [h EXCEPT !.socks = Append(@, "connecting"), !.cur = Len(h.socks) + 1]

\* The onclose handler of socket i: below the cap, the attempt is counted
\* and connect() scheduled after the delay; the timer goes into
\* reconnectTimeoutRef.
OnClose(h, i) ==
  LET h1 == [h EXCEPT !.socks[i] = "closed", !.isConnected = FALSE] IN
  IF h.attempts < MaxReconnectAttempts
  THEN [h1 EXCEPT !.attempts = @ + 1,
                  !.timers = Append(@, [pending |-> TRUE, delay |-> Delay(h.attempts + 1)]),
                  !.ref = Len(h.timers) + 1]
  ELSE h1

\* The onopen handler of socket i: reconnectAttempts is reset.
OnOpen(h, i) ==
  [h EXCEPT !.socks[i] = "open", !.isConnected = TRUE, !.attempts = 0]

\* disconnect(): the timer in reconnectTimeoutRef is cleared, ws.current is
\* closed and set to null.
Disconnect(h) ==
  LET h1 == IF h.ref # 0 THEN [h EXCEPT !.timers[h.ref].pending = FALSE] ELSE h
      h2 == IF h1.cur # 0
            THEN [h1 EXCEPT !.socks[h1.cur] =
                              IF @ \in {"connecting", "open"} THEN "closing" ELSE @,
                            !.cur = 0]
            ELSE h1
  IN [h2 EXCEPT !.isConnected = FALSE]

\* What the hook's steps leave alone: the server.
hookFrame ==
  <<storeVars, clients, conn, sent, lastAuth, superseded, wsLast, card, tokens, req>>

\* useEffect: connect() when AuthService.isAuthenticated().
HookMount ==
  /\ hook.phase = "initial"
  /\ \E authenticated \in BOOLEAN :
       hook' = IF authenticated THEN ConnectCall([hook EXCEPT !.phase = "mounted"])
               ELSE [hook EXCEPT !.phase = "mounted"]
  /\ UNCHANGED hookFrame

\* The open event of socket i: the server accepted the connection.
SockOpen(i) ==
  /\ hook.socks[i] = "connecting"
  /\ hook' = OnOpen(hook, i)
  /\ UNCHANGED hookFrame

\* The close event of socket i: the connection was refused, dropped, closed
\* by the server or closed by the client.
SockClose(i) ==
  /\ hook.socks[i] \in {"connecting", "open", "closing"}
  /\ hook' = OnClose(hook, i)
  /\ UNCHANGED hookFrame

\* Reconnect timer t fires: connect().
TimerFire(t) ==
  /\ hook.timers[t].pending
  /\ Len(hook.socks) < MaxSocks
  /\ LET h == ConnectCall([hook EXCEPT !.timers[t].pending = FALSE]) IN
       hook' = [h EXCEPT !.tries = @ + (Len(h.socks) - Len(hook.socks))]
  /\ UNCHANGED hookFrame

\* The effect's cleanup on unmount: disconnect().
HookUnmount ==
  /\ hook.phase = "mounted"
  /\ hook' = Disconnect([hook EXCEPT !.phase = "unmounted"])
  /\ UNCHANGED hookFrame

(* ------------------------------------------------------------ POST /events *)
\* CanCreateEvents, were the handler to let every role create events.
CanCreateEventsAnyRole(role) == role \in {"Organizer", "Faculty", "Student"}

\* Only the Organizer and Faculty roles may create events.
CanCreateEvents(role) == role \in {"Organizer", "Faculty"}

\* valid: whether insertEventSchema.parse accepts the body.
HttpCreateEvent(tok, valid, title) ==
  /\ Arrive([NewReq("create", tok) EXCEPT !.valid = valid, !.title = title])
  /\ UNCHANGED <<storeVars, liveVars, tokens>>

\* A valid body that carries the optional fields club and type.
HttpCreateEventWith(tok, title, body) ==
  /\ Arrive([NewReq("create", tok) EXCEPT !.valid = TRUE, !.title = title,
                                         !.body = body])
  /\ UNCHANGED <<storeVars, liveVars, tokens>>

\* The handler up to `await storage.createEvent`: 403 for a role that may not
\* create events, 400 (the catch) for a body the schema rejects; createEvent
\* has no await and runs whole.
CreateEventExec(r) ==
  /\ Authed(r, "create")
  /\ UNCHANGED <<users, clubs, arrays, notifications, now, liveVars, tokens>>
  /\ IF ~CanCreateEvents(req[r].user[1].role)
     THEN /\ req' = [req EXCEPT ![r].pc = "done", ![r].status = 403]
          /\ UNCHANGED events
     ELSE IF ~req[r].valid
     THEN /\ req' = [req EXCEPT ![r].pc = "done", ![r].status = 400]
          /\ UNCHANGED events
     ELSE /\ events' = CreateEvent(events,
                         Spread(Spread([title |-> req[r].title, club |-> Undefined,
                                        type |-> Undefined],
                                       req[r].body),
                                [organizerId |-> Uid(r)]))
          /\ req' = [req EXCEPT ![r].pc = "create_notify", ![r].ev = Len(events) + 1]

\* The handler up to `await storage.createNotification`: one row, for the
\* creator.
CreateEventNotify(r) ==
  /\ req[r].pc = "create_notify"
  /\ notifications' =
       CreateNotification(notifications,
                          [userId |-> Uid(r), title |-> "New Event Created",
                           message |-> ScheduledMessage(events[req[r].ev].title),
                           type |-> "event", eventId |-> req[r].ev],
                          now)
  /\ req' = [req EXCEPT ![r].pc = "create_push", ![r].nid = Len(notifications) + 1]
  /\ UNCHANGED <<users, clubs, arrays, events, now, liveVars, tokens>>

\* The object the handler hands to broadcastNotification.
PushPayload(r) ==
  [title |-> "New Event Created",
   message |-> ScheduledMessage(events[req[r].ev].title)]

\* Whether broadcastNotification reaches client.send for userId.
Sends(userId) ==
  LET client == MapGet(clients, userId) IN Found(client) /\ conn[client[1]] = "open"

\* CreateEventPush, were the handler to delete the row it has just stored
\* whenever the push puts no frame on a connection.
CreateEventPushRollback(r) ==
  /\ req[r].pc = "create_push"
  /\ \E thrown \in {FALSE, Sends(Uid(r))} :
       /\ sent' = IF thrown THEN sent
                  ELSE BroadcastNotification(sent, Uid(r), PushPayload(r))
       /\ notifications' = IF thrown \/ ~Sends(Uid(r))
                           THEN SubSeq(notifications, 1, req[r].nid - 1)
                           ELSE notifications
       /\ req' = [req EXCEPT ![r].pc = "done",
                             ![r].status = IF thrown THEN 400 ELSE 201]
  /\ UNCHANGED <<users, clubs, arrays, events, now, clients, conn, lastAuth,
                 superseded, wsLast, hook, card, tokens>>

\* The handler's last section: the push to the creator, then 201.  When
\* client.send is reached it puts the frame on the connection or throws, and
\* the handler's catch answers 400.
CreateEventPush(r) ==
  /\ req[r].pc = "create_push"
  /\ \E thrown \in {FALSE, Sends(Uid(r))} :
       /\ sent' = IF thrown THEN sent
                  ELSE BroadcastNotification(sent, Uid(r), PushPayload(r))
       /\ req' = [req EXCEPT ![r].pc = "done",
                             ![r].status = IF thrown THEN 400 ELSE 201]
  /\ UNCHANGED <<storeVars, clients, conn, lastAuth, superseded, wsLast, hook, card, tokens>>

(* ------------------------------------------------------ GET /notifications *)
HttpListNotifications(tok) ==
  /\ Arrive(NewReq("listnotifications", tok))
  /\ UNCHANGED <<storeVars, liveVars, tokens>>

\* The handler: storage.getNotifications(req.user.id) is the response.
ListNotificationsExec(r) ==
  /\ Authed(r, "listnotifications")
  /\ req' = [req EXCEPT ![r].pc = "done", ![r].status = 200,
                        ![r].list = GetNotifications(notifications, Uid(r))]
  /\ UNCHANGED <<storeVars, liveVars, tokens>>

\* new Date() is the wall clock, which the host may set forward or back
\* between two calls.
ClockValues == 0..2
ClockSet ==
  /\ \E t \in ClockValues \ {now} : now' = t
  /\ UNCHANGED <<users, clubs, arrays, events, notifications, liveVars, tokens, req>>

(* ------------------------------------------------ POST /notifications/... *)
HttpMarkRead(tok, id) ==
  /\ Arrive([NewReq("markread", tok) EXCEPT !.target = id])
  /\ UNCHANGED <<storeVars, liveVars, tokens>>

\* POST /notifications/:id/read up to `await storage.markNotificationRead`,
\* which runs whole.
MarkReadExec(r) ==
  /\ Authed(r, "markread")
  /\ UNCHANGED <<users, clubs, arrays, events, now, liveVars, tokens>>
  /\ IF req[r].target \notin DOMAIN notifications
     THEN /\ req' = [req EXCEPT ![r].pc = "respond", ![r].result = FALSE]
          /\ UNCHANGED notifications
     ELSE /\ notifications' = MarkNotificationRead(notifications, req[r].target)
          /\ req' = [req EXCEPT ![r].pc = "respond", ![r].result = TRUE]

HttpMarkAll(tok) ==
  /\ Arrive(NewReq("markall", tok))
  /\ UNCHANGED <<storeVars, liveVars, tokens>>

\* markAllNotificationsRead up to `await this.getNotifications(userId)`
MarkAllList(r) ==
  /\ Authed(r, "markall")
  /\ req' = [req EXCEPT ![r].pc = "markall_write",
                        ![r].lrows = GetNotifications(notifications, Uid(r))]
  /\ UNCHANGED <<storeVars, liveVars, tokens>>

\* markAllNotificationsRead after the await, and the handler's 200.
MarkAllWrite(r) ==
  /\ req[r].pc = "markall_write"
  /\ notifications' = MarkRowsRead(notifications, req[r].lrows)
  /\ req' = [req EXCEPT ![r].pc = "done", ![r].status = 200, ![r].result = TRUE]
  /\ UNCHANGED <<users, clubs, arrays, events, now, liveVars, tokens>>

(* -------------------------------------------------------- GET /auth/verify *)
\* The handler up to `await storage.getUserByEmail`: 400 without a token and
\* 400 (the catch) when jwt.verify throws.  No bearer check on this route.
HttpVerify(tok) ==
  /\ Len(req) < MaxReq
  /\ LET r0 == NewReq("verify", tok) IN
       req' = Append(req,
                IF ~tok.present \/ JwtVerifyThrows(tok)
                THEN [r0 EXCEPT !.pc = "done", !.status = 400]
                ELSE [r0 EXCEPT !.pc = "verify_user",
                                !.luser = GetUserByEmail(users, tok.payload.email)])
  /\ UNCHANGED <<storeVars, liveVars, tokens>>

\* From the lookup's result to `await storage.updateUser`: 400 for an unknown
\* email, 200 for a user already verified, else the flag is set.
VerifyUser(r) ==
  /\ req[r].pc = "verify_user"
  /\ UNCHANGED <<clubs, arrays, events, notifications, now, liveVars, tokens>>
  /\ IF ~Found(req[r].luser)
     THEN /\ req' = [req EXCEPT ![r].pc = "done", ![r].status = 400]
          /\ UNCHANGED users
     ELSE IF req[r].luser[1].isVerified
     THEN /\ req' = [req EXCEPT ![r].pc = "done", ![r].status = 200]
          /\ UNCHANGED users
     ELSE /\ users' = UpdateUser(users, req[r].luser[1].id, [isVerified |-> TRUE])
          /\ req' = [req EXCEPT ![r].pc = "verify_respond"]

\* After `await storage.updateUser`: 200.
VerifyRespond(r) ==
  /\ req[r].pc = "verify_respond"
  /\ req' = [req EXCEPT ![r].pc = "done", ![r].status = 200]
  /\ UNCHANGED <<storeVars, liveVars, tokens>>

(* ----------------------------------------------------- POST /auth/register *)
\* The emails and passwords of the requests, and what the schemas compute on
\* them: email.endsWith("@srec.ac.in") and password.length >= 6.
Emails ==
  {"a@srec.ac.in", "b@srec.ac.in", "c@srec.ac.in", "d@srec.ac.in", "d@gmail.com"}
Passwords == {"secret1", "secret2", "pw"}
EndsWithSrec(email) == email \in Emails \ {"d@gmail.com"}
MinSix(password) == password \in Passwords \ {"pw"}

\* insertUserSchema.parse(req.body) accepts the body, and the handler's own
\* guard on the email's domain passes.
RegisterBodyOk(email, password) == EndsWithSrec(email) /\ MinSix(password)

\* The handler up to `await storage.getUserByEmail`: 400 (the catch) for a
\* body the schema rejects.
HttpRegister(email, password) ==
  /\ Len(req) < MaxReq
  /\ LET r0 == [NewReq("register", NoToken) EXCEPT !.email = email,
                                                    !.password = password] IN
       req' = Append(req,
                IF ~RegisterBodyOk(email, password)
                THEN [r0 EXCEPT !.pc = "done", !.status = 400]
                ELSE [r0 EXCEPT !.pc = "register_check",
                                !.luser = GetUserByEmail(users, email)])
  /\ UNCHANGED <<storeVars, liveVars, tokens>>

\* From the lookup's result to `await bcrypt.hash`: 400 when the email is
\* taken.
RegisterCheck(r) ==
  /\ req[r].pc = "register_check"
  /\ req' = IF Found(req[r].luser)
            THEN [req EXCEPT ![r].pc = "done", ![r].status = 400]
            ELSE [req EXCEPT ![r].pc = "register_create"]
  /\ UNCHANGED <<storeVars, liveVars, tokens>>

\* From the hash to `await storage.createUser`: the user is stored,
\* unverified, and is the handler's `user`.
RegisterCreate(r) ==
  /\ req[r].pc = "register_create"
  /\ Cardinality(DOMAIN users) < Len(InsertionOrder)
  /\ users' = CreateUser(users,
                         [name |-> "new", email |-> req[r].email,
                          password |-> Hash(req[r].password), role |-> "Student",
                          isVerified |-> FALSE],
                         Len(arrays) + 1, now)
  /\ arrays' = Append(arrays, <<>>)
  /\ req' = [req EXCEPT
               ![r].pc = "register_mail",
               ![r].user = <<users'[InsertionOrder[Cardinality(DOMAIN users) + 1]]>>]
  /\ UNCHANGED <<clubs, events, notifications, now, liveVars, tokens>>

\* sendVerificationEmail: the token is signed and mailed; when sendMail
\* rejects, the handler's catch answers 400.
RegisterMail(r) ==
  /\ req[r].pc = "register_mail"
  /\ \E delivered \in BOOLEAN :
       /\ tokens' = IF delivered THEN tokens \cup {VerifyToken(req[r].email)}
                    ELSE tokens
       /\ req' = [req EXCEPT ![r].pc = "done",
                             ![r].status = IF delivered THEN 200 ELSE 400]
  /\ UNCHANGED <<storeVars, liveVars>>

(* -------------------------------------------------------- POST /auth/login *)
\* The handler up to `await storage.getUserByEmail`; loginSchema accepts
\* every email and password of the requests.
HttpLogin(email, password) ==
  /\ Len(req) < MaxReq
  /\ req' = Append(req, [NewReq("login", NoToken) EXCEPT
                           !.email = email, !.password = password,
                           !.pc = "login_user",
                           !.luser = GetUserByEmail(users, email)])
  /\ UNCHANGED <<storeVars, liveVars, tokens>>

\* The same section without the handler's isVerified guard.
LoginUserSkipVerified(r) ==
  /\ req[r].pc = "login_user"
  /\ req' = IF ~Found(req[r].luser)
            THEN [req EXCEPT ![r].pc = "done", ![r].status = 401]
            ELSE [req EXCEPT ![r].pc = "login_compare"]
  /\ UNCHANGED <<storeVars, liveVars, tokens>>

\* From the lookup's result to `await bcrypt.compare`: 401 for an unknown
\* email, 403 for a user not verified.
LoginUser(r) ==
  /\ req[r].pc = "login_user"
  /\ req' = IF ~Found(req[r].luser)
            THEN [req EXCEPT ![r].pc = "done", ![r].status = 401]
            ELSE IF ~req[r].luser[1].isVerified
            THEN [req EXCEPT ![r].pc = "done", ![r].status = 403]
            ELSE [req EXCEPT ![r].pc = "login_compare"]
  /\ UNCHANGED <<storeVars, liveVars, tokens>>

\* After bcrypt.compare: 401 for a wrong password, else the session token is
\* signed and returned.
LoginCompare(r) ==
  /\ req[r].pc = "login_compare"
  /\ IF ~Compare(req[r].password, req[r].luser[1].password)
     THEN /\ req' = [req EXCEPT ![r].pc = "done", ![r].status = 401]
          /\ UNCHANGED tokens
     ELSE /\ tokens' = tokens \cup {SessionToken(req[r].luser[1].id)}
          /\ req' = [req EXCEPT ![r].pc = "done", ![r].status = 200,
                                ![r].issued = SessionToken(req[r].luser[1].id)]
  /\ UNCHANGED <<storeVars, liveVars>>

(* ----------------------------------------------------- PATCH /auth/profile *)
HttpProfile(tok, body) ==
  /\ Arrive([NewReq("profile", tok) EXCEPT !.body = body])
  /\ UNCHANGED <<storeVars, liveVars, tokens>>

\* The handler: storage.updateUser(req.user.id, req.body), 404 when it
\* returns undefined.
ProfileExec(r) ==
  /\ Authed(r, "profile")
  /\ users' = UpdateUser(users, Uid(r), req[r].body)
  /\ req' = [req EXCEPT ![r].pc = "done",
                        ![r].status = IF Found(GetUser(users, Uid(r)))
                                      THEN 200 ELSE 404]
  /\ UNCHANGED <<clubs, arrays, events, notifications, now, liveVars, tokens>>

(* --------------------------------------------------------- initial state *)
\* Array references of the members of the default clubs.
ClubRef(c) == IF c = "Coding Club" THEN 1 ELSE 2

\* After construction: the default clubs, nothing else.
Init ==
  /\ users = << >>
  /\ arrays = [i \in 1..Cardinality(ClubNames) |-> <<>>]
  /\ clubs = [c \in ClubNames |-> [name |-> c, members |-> ClubRef(c)]]
  /\ events = <<>>
  /\ notifications = <<>>
  /\ now = 0
  /\ clients = <<>>
  /\ conn = [w \in Conns |-> "idle"]
  /\ sent = [w \in Conns |-> <<>>]
  /\ lastAuth = [k \in RegistryKeys |-> 0]
  /\ superseded = {}
  /\ wsLast = NoMessage
  /\ hook = HookIdle
  /\ card = CardIdle
  /\ tokens = {}
  /\ req = <<>>

\* A state the server reaches by three registrations, two verifications, two
\* logins and one join: u1 (Organizer) and u2 (Student) are verified and hold
\* session tokens, u3 (Faculty) has registered and not yet followed its
\* verification link, and u2 has joined the Coding Club.
EmailOf(u) ==
  IF u = "u1" THEN "a@srec.ac.in" ELSE IF u = "u2" THEN "b@srec.ac.in"
  ELSE "c@srec.ac.in"
RoleOf(u) ==
  IF u = "u1" THEN "Organizer" ELSE IF u = "u2" THEN "Student" ELSE "Faculty"
UserRef(u) == IF u = "u1" THEN 3 ELSE IF u = "u2" THEN 4 ELSE 5
PasswordOf(u) == IF u = "u2" THEN "secret2" ELSE "secret1"

\* The stored user u after its registration (and, for u1 and u2, its
\* verification).  createdAt is the clock at registration.
RegisteredUser(u) ==
  [id |-> u, name |-> u, email |-> EmailOf(u), password |-> Hash(PasswordOf(u)),
   role |-> RoleOf(u), isVerified |-> u # "u3", clubs |-> UserRef(u),
   createdAt |-> 0]

\* The arrays after u2 has joined the Coding Club.
JoinedArrays ==
  [i \in 1..(Cardinality(ClubNames) + Cardinality(UserIds)) |->
     IF i = ClubRef("Coding Club") THEN <<"u2">>
     ELSE IF i = UserRef("u2") THEN <<"Coding Club">>
     ELSE <<>>]

Populated ==
  /\ users = [u \in UserIds |-> RegisteredUser(u)]
  /\ arrays = JoinedArrays
  /\ clubs = [c \in ClubNames |-> [name |-> c, members |-> ClubRef(c)]]
  /\ events = <<>>
  /\ notifications = <<>>
  /\ now = 0
  /\ clients = <<>>
  /\ conn = [w \in Conns |-> "idle"]
  /\ sent = [w \in Conns |-> <<>>]
  /\ lastAuth = [k \in RegistryKeys |-> 0]
  /\ superseded = {}
  /\ wsLast = NoMessage
  /\ hook = HookIdle
  /\ card = CardIdle
  /\ tokens = {SessionToken("u1"), SessionToken("u2")}
                \cup {VerifyToken(EmailOf(u)) : u \in UserIds}
  /\ req = <<>>

(* ------------------------------------------------------ club membership *)
\* Bearer tokens of the club requests: both logged-in users, a verification
\* token, an expired token and none.
ClubTokens ==
  {SessionToken("u1"), SessionToken("u2"), VerifyToken(EmailOf("u1")),
   ExpiredToken("u1"), NoToken}

ReqJoin == \E t \in ClubTokens, c \in ClubInputs : HttpJoin(t, c)
ReqLeave == \E t \in ClubTokens, c \in ClubInputs : HttpLeave(t, c)
StepRejected == \E r \in DOMAIN req : Rejected(r)
StepJoinGetUser == \E r \in DOMAIN req : JoinGetUser(r)
StepJoinGetClub == \E r \in DOMAIN req : JoinGetClub(r)
StepJoinUser == \E r \in DOMAIN req : JoinUser(r)
StepJoinMembers == \E r \in DOMAIN req : JoinMembers(r)
StepLeaveGetUser == \E r \in DOMAIN req : LeaveGetUser(r)
StepLeaveGetClub == \E r \in DOMAIN req : LeaveGetClub(r)
StepLeaveUser == \E r \in DOMAIN req : LeaveUser(r)
StepLeaveMembers == \E r \in DOMAIN req : LeaveMembers(r)
StepRespond == \E r \in DOMAIN req : Respond(r)

ClubSteps ==
  \/ StepRejected
  \/ StepJoinGetUser
  \/ StepJoinGetClub
  \/ StepJoinUser
  \/ StepJoinMembers
  \/ StepLeaveGetUser
  \/ StepLeaveGetClub
  \/ StepLeaveUser
  \/ StepLeaveMembers
  \/ StepRespond

\* Join and leave requests whose synchronous sections interleave.
NextClub ==
  \/ ReqJoin
  \/ ReqLeave
  \/ ClubSteps

SpecClub == Populated /\ [][NextClub]_vars

\* No request is in progress.
Quiet == \A r \in DOMAIN req : req[r].pc = "done"

\* Join and leave requests one after the other: a request arrives only when
\* the one before it has been answered.
NextClubSeq ==
  \/ Quiet /\ ReqJoin
  \/ Quiet /\ ReqLeave
  \/ ClubSteps

SpecClubSeq == Populated /\ [][NextClubSeq]_vars

\* user.clubs lists club c / club.members lists user u, in the store.
UserHasClub(u, c) == Includes(arrays[users[u].clubs], c)
ClubHasUser(c, u) == Includes(arrays[clubs[c].members], u)

\* C1: in every state of the store, between the awaits of joinClub and
\* leaveClub too, a user lists a club iff the club lists the user.
C1_MirrorAlways ==
  \A u \in DOMAIN users, c \in DOMAIN clubs : UserHasClub(u, c) <=> ClubHasUser(c, u)

\* The store call of the last request has returned true.
Returned(r, op) ==
  /\ r = Len(req)
  /\ req[r].op = op
  /\ req[r].pc \in {"respond", "done"}
  /\ req[r].result

\* The membership of every user and club other than the pair (u, c) is what
\* it was when request r arrived.
OthersUnchanged(r, u, c) ==
  /\ \A v \in DOMAIN users \ {u} : arrays[users[v].clubs] = req[r].pre.uc[v]
  /\ \A d \in DOMAIN clubs \ {c} : arrays[clubs[d].members] = req[r].pre.cm[d]
  /\ FilterOut(arrays[users[u].clubs], c) = FilterOut(req[r].pre.uc[u], c)
  /\ FilterOut(arrays[clubs[c].members], u) = FilterOut(req[r].pre.cm[c], u)

\* C2: run without interleaving, joinClub(u, c) leaves c in u.clubs and u in
\* c.members, leaveClub(u, c) leaves neither, and both leave the membership
\* of every other user and club as it was.
C2_JoinLeaveSequential ==
  \A r \in DOMAIN req :
    /\ Returned(r, "join") =>
         /\ UserHasClub(Uid(r), req[r].club)
         /\ ClubHasUser(req[r].club, Uid(r))
         /\ OthersUnchanged(r, Uid(r), req[r].club)
    /\ Returned(r, "leave") =>
         /\ ~UserHasClub(Uid(r), req[r].club)
         /\ ~ClubHasUser(req[r].club, Uid(r))
         /\ OthersUnchanged(r, Uid(r), req[r].club)

\* u1's leave of the Coding Club has returned true right after u1's join of
\* it was answered 200, and u2 is still a member of it.
C2_Witness ==
  /\ Len(req) >= 2
  /\ Returned(Len(req), "leave")
  /\ LET j == Len(req) - 1 IN
       /\ req[j].op = "join" /\ req[j].status = 200
       /\ req[j].club = "Coding Club" /\ req[Len(req)].club = "Coding Club"
       /\ req[j].tok = SessionToken("u1") /\ req[Len(req)].tok = SessionToken("u1")
  /\ ClubHasUser("Coding Club", "u2")
  /\ UserHasClub("u2", "Coding Club")

(* ------------------------------------------------------------------ RSVP *)
\* The initial state of the RSVP runs: Populated, and u1 has created one
\* event, which left the event and its notification row for u1.
InitRsvp ==
  /\ users = [u \in UserIds |-> RegisteredUser(u)]
  /\ arrays = JoinedArrays
  /\ clubs = [c \in ClubNames |-> [name |-> c, members |-> ClubRef(c)]]
  /\ events = CreateEvent(<<>>, [title |-> "Hackathon", club |-> Undefined,
                                 type |-> Undefined, organizerId |-> "u1"])
  /\ notifications =
       CreateNotification(<<>>, [userId |-> "u1", title |-> "New Event Created",
                                 message |-> ScheduledMessage("Hackathon"),
                                 type |-> "event", eventId |-> 1], 0)
  /\ now = 0
  /\ clients = <<>>
  /\ conn = [w \in Conns |-> "idle"]
  /\ sent = [w \in Conns |-> <<>>]
  /\ lastAuth = [k \in RegistryKeys |-> 0]
  /\ superseded = {}
  /\ wsLast = NoMessage
  /\ hook = HookIdle
  /\ card = CardIdle
  /\ tokens = {SessionToken("u1"), SessionToken("u2")}
                \cup {VerifyToken(EmailOf(u)) : u \in UserIds}
  /\ req = <<>>

RsvpTokens ==
  {SessionToken("u1"), SessionToken("u2"), ExpiredToken("u1"), ForgedToken("u1")}
\* Event ids a request may carry: the stored event's and one of no event.
EventInputs == {1, 7}

ReqRsvp == \E t \in RsvpTokens, e \in EventInputs, k \in RsvpInputs : HttpRsvp(t, e, k)
ReqUnrsvp == \E t \in RsvpTokens, e \in EventInputs : HttpUnrsvp(t, e)
StepRsvpExec == \E r \in DOMAIN req : RsvpExec(r)
StepUnrsvpExec == \E r \in DOMAIN req : UnrsvpExec(r)

NextRsvp ==
  \/ ReqRsvp
  \/ ReqUnrsvp
  \/ StepRsvpExec
  \/ StepUnrsvpExec
  \/ StepRespond

SpecRsvp == InitRsvp /\ [][NextRsvp]_vars

\* InitRsvp, after u2 has answered the event attending and u1 interested.
InitListing ==
  /\ users = [u \in UserIds |-> RegisteredUser(u)]
  /\ arrays = JoinedArrays
  /\ clubs = [c \in ClubNames |-> [name |-> c, members |-> ClubRef(c)]]
  /\ events =
       RsvpEvent(
         RsvpEvent(CreateEvent(<<>>, [title |-> "Hackathon", club |-> Undefined,
                                      type |-> Undefined, organizerId |-> "u1"]),
                   "u2", 1, "attending"),
         "u1", 1, "interested")
  /\ notifications =
       CreateNotification(<<>>, [userId |-> "u1", title |-> "New Event Created",
                                 message |-> ScheduledMessage("Hackathon"),
                                 type |-> "event", eventId |-> 1], 0)
  /\ now = 0
  /\ clients = <<>>
  /\ conn = [w \in Conns |-> "idle"]
  /\ sent = [w \in Conns |-> <<>>]
  /\ lastAuth = [k \in RegistryKeys |-> 0]
  /\ superseded = {}
  /\ wsLast = NoMessage
  /\ hook = HookIdle
  /\ card = CardIdle
  /\ tokens = {SessionToken("u1"), SessionToken("u2")}
                \cup {VerifyToken(EmailOf(u)) : u \in UserIds}
  /\ req = <<>>

ReqListEvents == \E t \in RsvpTokens : HttpListEvents(t)
StepListEventsExec == \E r \in DOMAIN req : ListEventsExec(r)

\* The event is listed while RSVPs are made and withdrawn.
NextListing ==
  \/ NextRsvp
  \/ ReqListEvents
  \/ StepListEventsExec

SpecListing == InitListing /\ [][NextListing]_vars

\* The ids in a list.
IdsOf(list) == {list[i] : i \in DOMAIN list}

\* C16: every event a listing returns carries an attendeeCount equal to the
\* number of ids in its attendees and an interestedCount equal to the number
\* of ids in its interested; the listing returns every stored event, with
\* the two lists as they are stored when it runs.
C16_ListingCounts ==
  /\ [](\A r \in DOMAIN req :
         (req[r].op = "listevents" /\ req[r].status = 200) =>
           \A k \in DOMAIN req[r].list :
             /\ req[r].list[k].attendeeCount =
                  Cardinality(IdsOf(req[r].list[k].attendees))
             /\ req[r].list[k].interestedCount =
                  Cardinality(IdsOf(req[r].list[k].interested)))
  /\ [][\A r \in DOMAIN req :
         (req[r].op = "listevents" /\ req[r].pc = "authed" /\ req'[r].pc = "done"
            /\ req'[r].status = 200) =>
           /\ DOMAIN req'[r].list = DOMAIN events
           /\ \A k \in DOMAIN events :
                /\ req'[r].list[k].id = events[k].id
                /\ req'[r].list[k].attendees = events[k].attendees
                /\ req'[r].list[k].interested = events[k].interested
                /\ req'[r].list[k].attendeeCount =
                     Cardinality({u \in UserIds : Includes(events[k].attendees, u)})
                /\ req'[r].list[k].interestedCount =
                     Cardinality({u \in UserIds : Includes(events[k].interested, u)})]_vars

\* u1, who was interested, has answered attending and then listed the
\* events: two attendees, nobody interested.
C16_Witness ==
  /\ Len(req) = 2
  /\ req[1].op = "rsvp" /\ req[1].tok = SessionToken("u1")
  /\ req[1].kind = "attending" /\ req[1].status = 200
  /\ req[2].op = "listevents" /\ req[2].status = 200
  /\ Len(req[2].list) = 1
  /\ req[2].list[1].attendees = <<"u2", "u1">>
  /\ req[2].list[1].attendeeCount = 2
  /\ req[2].list[1].interestedCount = 0

Attending(e, u) == Includes(events[e].attendees, u)
Interested(e, u) == Includes(events[e].interested, u)

\* How many times x is in array s.
Occurrences(s, x) == Cardinality({i \in 1..Len(s) : s[i] = x})

\* Request r is a join that repeats the join answered just before it: same
\* caller, same club, and that one succeeded.
RepeatedJoin(r) ==
  /\ r > 1
  /\ req[r].op = "join" /\ req[r - 1].op = "join"
  /\ req[r].tok = req[r - 1].tok /\ req[r].club = req[r - 1].club
  /\ req[r - 1].pc = "done" /\ req[r - 1].status = 200

\* C18: a joinClub(u, c) that follows a successful joinClub(u, c) leaves the
\* store, in each of its steps, exactly as the first left it, and succeeds;
\* until the next request the club's name is once in u.clubs and u's id once
\* in c.members.
C18_JoinIdempotent ==
  /\ [][\A r \in DOMAIN req :
          RepeatedJoin(r) /\ req'[r] # req[r] => UNCHANGED storeVars]_vars
  /\ [](\A r \in DOMAIN req :
          RepeatedJoin(r) =>
            /\ req[r].pc \in {"respond", "done"} => req[r].result
            /\ req[r].pc = "done" => req[r].status = 200
            /\ Found(req[r].user) /\ r = Len(req) =>
                 /\ Occurrences(arrays[users[Uid(r)].clubs], req[r].club) = 1
                 /\ Occurrences(arrays[clubs[req[r].club].members], Uid(r)) = 1)

\* u1 has joined the Robotics Club twice in a row, both calls answered 200.
C18_Witness ==
  /\ Len(req) = 2
  /\ RepeatedJoin(2)
  /\ req[2].tok = SessionToken("u1") /\ req[2].club = "Robotics Club"
  /\ req[2].pc = "done" /\ req[2].status = 200
  /\ arrays[users["u1"].clubs] = <<"Robotics Club">>
  /\ arrays[clubs["Robotics Club"].members] = <<"u1">>

\* C3: in every reachable state, whatever RSVP and un-RSVP requests have run
\* and however they interleaved, no user id is in both the attendees and the
\* interested list of an event.
C3_RsvpExclusive ==
  \A e \in DOMAIN events, u \in UserIds : ~(Attending(e, u) /\ Interested(e, u))

\* Two RSVPs of one user for the stored event, one of each kind, were in
\* progress together and both have run; the user is on a list.
C3_Witness ==
  /\ Len(req) = 2
  /\ \A r \in {1, 2} : req[r].op = "rsvp" /\ req[r].pc = "respond" /\ req[r].result
  /\ req[1].user = req[2].user
  /\ req[1].event = req[2].event
  /\ req[1].kind # req[2].kind
  /\ Attending(req[1].event, Uid(1)) \/ Interested(req[1].event, Uid(1))

\* Request r's store call (rsvpEvent or unrsvpEvent) runs in this step, on an
\* event that exists.
RsvpCallRuns(r) ==
  /\ req[r].pc = "authed"
  /\ req'[r].pc = "respond"
  /\ req[r].op \in {"rsvp", "unrsvp"}
  /\ req[r].event \in DOMAIN events

\* C4: on an event that exists, rsvp(u, e, attending) leaves u in e.attendees
\* and not in e.interested; rsvp(u, e, interested), after an attending RSVP
\* or not, leaves u in e.interested and not in e.attendees, and the attendee
\* count getEvents reports is the count before it without u; unrsvp(u, e)
\* leaves u in neither list; and each of them returns true, unrsvp also when
\* u had no RSVP.
C4_RsvpSteps ==
  [][\A r \in DOMAIN req :
       RsvpCallRuns(r) =>
         LET u == Uid(r)
             e == req[r].event
             after == events'[e]
         IN /\ req'[r].result
            /\ (req[r].op = "rsvp" /\ req[r].kind = "attending") =>
                  Includes(after.attendees, u) /\ ~Includes(after.interested, u)
            /\ (req[r].op = "rsvp" /\ req[r].kind = "interested") =>
                  /\ Includes(after.interested, u)
                  /\ ~Includes(after.attendees, u)
                  /\ GetEvents(events')[e].attendeeCount
                       = Len(FilterOut(events[e].attendees, u))
            /\ req[r].op = "unrsvp" =>
                  ~Includes(after.attendees, u) /\ ~Includes(after.interested, u)
    ]_vars

\* u1 answered attending, got 200, then answered interested: u1 is the only
\* one interested and nobody is counted as attending.
C4_Witness ==
  /\ Len(req) = 2
  /\ req[1].op = "rsvp" /\ req[1].kind = "attending" /\ req[1].status = 200
  /\ req[2].op = "rsvp" /\ req[2].kind = "interested" /\ req[2].status = 200
  /\ req[1].event = 1 /\ req[2].event = 1
  /\ req[1].tok = SessionToken("u1") /\ req[2].tok = SessionToken("u1")
  /\ events[1].interested = <<"u1">>
  /\ GetEvents(events)[1].attendeeCount = 0

(* ------------------------------------------------------- live connections *)
\* HTTP requests in one run of the specifications in which live connections
\* run too.
MaxLiveReq == 1

LiveTokens == {SessionToken("u1"), SessionToken("u2"), ExpiredToken("u1")}
Messages ==
  {Malformed, OtherFrame, AuthFrame(NoToken)} \cup {AuthFrame(t) : t \in LiveTokens}

ReqCreateEvent ==
  /\ Len(req) < MaxLiveReq
  /\ HttpCreateEvent(SessionToken("u1"), TRUE, "Hackathon")
StepCreateEventExec == \E r \in DOMAIN req : CreateEventExec(r)
StepCreateEventNotify == \E r \in DOMAIN req : CreateEventNotify(r)
StepCreateEventPush == \E r \in DOMAIN req : CreateEventPush(r)
Connect == \E w \in Conns : WsConnect(w)
Message == \E w \in Conns, m \in Messages : WsMessage(w, m)
Close == \E w \in Conns : WsClose(w)

\* Connections open, authenticate and close while events are created.
NextLive ==
  \/ Connect
  \/ Message
  \/ Close
  \/ ReqCreateEvent
  \/ StepCreateEventExec
  \/ StepCreateEventNotify
  \/ StepCreateEventPush

SpecLive == Populated /\ [][NextLive]_vars

\* Request r's push runs in this step.
PushRuns(r) == req[r].pc = "create_push" /\ req'[r].pc = "done"

\* Connection w's close is processed in this step.
CloseRuns(w) == conn[w] # "closed" /\ conn'[w] = "closed"

\* The registry entries whose connection is w.
EntriesOf(m, w) == {i \in 1..Len(m) : m[i].ws = w}

\* C5: a push for a user puts a frame on no connection but the one that
\* authenticated last for that user, and only while it is open, so never on
\* an older one; a step that registers a connection closes none; and when a
\* connection closes, the entries of the other connections stay.
C5_NewestOnly ==
  /\ [][\A r \in DOMAIN req :
          PushRuns(r) =>
            \A w \in Conns :
              sent'[w] # sent[w] => w = lastAuth[Uid(r)] /\ conn[w] = "open"]_vars
  /\ [][lastAuth' # lastAuth => conn' = conn]_vars
  /\ [][\A w \in Conns :
          CloseRuns(w) =>
            \A i \in 1..Len(clients) :
              clients[i].ws # w => \E j \in 1..Len(clients') : clients'[j] = clients[i]]_vars

\* Connection 1 registered for u1 and only for u1, connection 2 registered
\* for u1 after it, both are open, and the push of u1's event went out on
\* connection 2 and not on connection 1.
C5_Witness ==
  /\ 1 \in superseded
  /\ 2 \notin superseded
  /\ lastAuth["u1"] = 2
  /\ lastAuth["u2"] = 0
  /\ conn[1] = "open" /\ conn[2] = "open"
  /\ sent[1] = <<>>
  /\ sent[2] # <<>>

\* The row request r stored: its id is req[r].nid.
RowOf(ns, r) ==
  /\ req[r].nid \in 1..Len(ns)
  /\ ns[req[r].nid].id = req[r].nid
  /\ ns[req[r].nid].userId = Uid(r)
  /\ ns[req[r].nid].eventId = req[r].ev

\* C6: when the push of an event's notification is attempted its row is in
\* the store already, the attempt leaves the rows as they are, and the row
\* is in the store ever after, whether a frame went out, none did for want
\* of a registered open connection, or client.send threw.
C6_PersistBeforePush ==
  /\ [][\A r \in DOMAIN req :
          PushRuns(r) => RowOf(notifications, r) /\ notifications' = notifications]_vars
  /\ [](\A r \in DOMAIN req :
          req[r].pc \in {"create_push", "done"} /\ req[r].ev # 0
            => RowOf(notifications, r))

\* An event creation has been answered, no frame went out on any connection
\* although the creator is registered, the registered connection being no
\* longer open; the row is stored.
C6_Witness ==
  /\ Len(req) = 1
  /\ req[1].pc = "done"
  /\ req[1].status = 201
  /\ \A w \in Conns : sent[w] = <<>>
  /\ Found(MapGet(clients, "u1"))
  /\ conn[MapGet(clients, "u1")[1]] # "open"
  /\ RowOf(notifications, 1)

\* The fields of a stored notification.
NotificationFields ==
  {"id", "userId", "title", "message", "type", "eventId", "read", "createdAt"}

\* C7: every frame sent on a connection is {type: "notification", data: N}
\* with N equal, field by field, to a stored notification row.
C7_FrameCarriesRow ==
  \A w \in Conns : \A i \in 1..Len(sent[w]) :
    /\ sent[w][i].type = "notification"
    /\ \E n \in 1..Len(notifications) :
         /\ DOMAIN sent[w][i].data = NotificationFields
         /\ \A f \in NotificationFields : sent[w][i].data[f] = notifications[n][f]

\* C8: once the close of a connection has been processed, no registry entry
\* has that connection as its value.
C8_ClosedUnregistered ==
  \A w \in Conns : conn[w] = "closed" => EntriesOf(clients, w) = {}

(* ------------------------------------------------------ credential classes *)
\* Both classes of signed token, where either class is expected: a session
\* token of a stored user and of a user the store does not hold, and the
\* verification tokens of a verified and of an unverified user.
CredTokens ==
  {SessionToken("u1"), StaleToken, VerifyToken(EmailOf("u1")),
   VerifyToken(EmailOf("u3"))}
CredMessages ==
  {AuthFrame(t) : t \in {SessionToken("u1"), StaleToken, VerifyToken(EmailOf("u1"))}}

ReqBearer ==
  /\ Len(req) < MaxLiveReq
  /\ \E t \in CredTokens \cup {NoToken} : HttpCreateEvent(t, TRUE, "Hackathon")
ReqVerify ==
  /\ Len(req) < MaxLiveReq
  /\ \E t \in CredTokens \cup {NoToken} : HttpVerify(t)
StepVerifyUser == \E r \in DOMAIN req : VerifyUser(r)
StepVerifyRespond == \E r \in DOMAIN req : VerifyRespond(r)
MessageSeen == \E w \in Conns, m \in CredMessages : WsMessageSeen(w, m)

\* Tokens of both classes presented as bearer token, in an auth frame and to
\* the verification link.
NextCred ==
  \/ Connect
  \/ MessageSeen
  \/ Close
  \/ ReqBearer
  \/ ReqVerify
  \/ StepRejected
  \/ StepCreateEventExec
  \/ StepCreateEventNotify
  \/ StepCreateEventPush
  \/ StepVerifyUser
  \/ StepVerifyRespond

SpecCred == Populated /\ [][NextCred]_vars

\* The two classes of credential: a token jwt.verify accepts that carries an
\* email, and one that carries a user id.
IsVerificationCredential(t) ==
  t.present /\ ~JwtVerifyThrows(t) /\ t.payload.email # Undefined
IsSessionCredential(t) ==
  t.present /\ ~JwtVerifyThrows(t) /\ t.payload.userId # Undefined

\* A request with a verification credential as bearer token gets no further
\* than authenticateToken, which answers 401.
BearerRejectsVerification ==
  \A r \in DOMAIN req :
    req[r].op = "create" /\ IsVerificationCredential(req[r].tok) =>
      /\ req[r].pc \in {"authed", "done"}
      /\ req[r].status \in {0, 401}
      /\ ~Found(req[r].user)

\* After an auth frame with a verification credential the registry has no
\* entry made from it and the connection is closing or closed.
LiveRejectsVerification ==
  (wsLast.kind = "auth" /\ IsVerificationCredential(wsLast.token)) =>
    /\ \A i \in 1..Len(clients) : clients[i].key # wsLast.token.payload.userId
    /\ conn[wsLast.ws] \in {"closing", "closed"}

\* GET /auth/verify with a session credential resolves no user, writes no
\* verification flag and answers 400.
VerifyRejectsSession ==
  \A r \in DOMAIN req :
    req[r].op = "verify" /\ IsSessionCredential(req[r].tok) =>
      /\ req[r].pc \in {"verify_user", "done"}
      /\ req[r].status \in {0, 400}
      /\ ~Found(req[r].luser)

\* C9: a verification credential is rejected by the HTTP bearer check, and in
\* an auth frame it creates no registry entry and gets the connection closed;
\* a session credential is rejected by GET /auth/verify.
C9_ClassesSeparate ==
  /\ BearerRejectsVerification
  /\ LiveRejectsVerification
  /\ VerifyRejectsSession

\* C10: every registry key is the id of a stored user, and after an auth
\* frame whose token verifies but names no stored user the connection is
\* closing or closed.
C10_KeysAreUsers ==
  /\ \A i \in 1..Len(clients) : clients[i].key \in DOMAIN users
  /\ (/\ wsLast.kind = "auth"
      /\ wsLast.token.present
      /\ ~JwtVerifyThrows(wsLast.token)
      /\ wsLast.token.payload.userId \notin DOMAIN users)
       => conn[wsLast.ws] \in {"closing", "closed"}

(* ------------------------------------------- events and notifications *)
\* Populated, after u3 has followed its verification link and logged in:
\* an Organizer, a Student and a Faculty member hold session tokens.
InitEvents ==
  /\ users = [u \in UserIds |-> [RegisteredUser(u) EXCEPT !.isVerified = TRUE]]
  /\ arrays = JoinedArrays
  /\ clubs = [c \in ClubNames |-> [name |-> c, members |-> ClubRef(c)]]
  /\ events = <<>>
  /\ notifications = <<>>
  /\ now = 0
  /\ clients = <<>>
  /\ conn = [w \in Conns |-> "idle"]
  /\ sent = [w \in Conns |-> <<>>]
  /\ lastAuth = [k \in RegistryKeys |-> 0]
  /\ superseded = {}
  /\ wsLast = NoMessage
  /\ hook = HookIdle
  /\ card = CardIdle
  /\ tokens = {SessionToken(u) : u \in UserIds}
                \cup {VerifyToken(EmailOf(u)) : u \in UserIds}
  /\ req = <<>>

\* Bearer tokens of the event and notification requests: the three users',
\* and none.
EventTokens == {SessionToken(u) : u \in UserIds} \cup {NoToken}

ReqEvent ==
  \E t \in EventTokens, v \in BOOLEAN : HttpCreateEvent(t, v, "Hackathon")

\* Events are created by callers of every role, with bodies the schema
\* accepts and bodies it rejects; no live connection is open.
NextEvents ==
  \/ ReqEvent
  \/ StepCreateEventExec
  \/ StepCreateEventNotify
  \/ StepCreateEventPush

SpecEvents == InitEvents /\ [][NextEvents]_vars

\* Request r is an event creation by a caller of one of the roles.
CreateBy(r, roles) ==
  req[r].op = "create" /\ Found(req[r].user) /\ req[r].user[1].role \in roles

\* The notification rows of event ev.
RowsOfEvent(ev) == {n \in 1..Len(notifications) : notifications[n].eventId = ev}

InitNotifications ==
  /\ users = [u \in UserIds |-> [RegisteredUser(u) EXCEPT !.isVerified = TRUE]]
  /\ arrays = JoinedArrays
  /\ clubs = [c \in ClubNames |-> [name |-> c, members |-> ClubRef(c)]]
  /\ events =
       LET body(t, u) == [title |-> t, club |-> Undefined, type |-> Undefined,
                          organizerId |-> u]
       IN CreateEvent(CreateEvent(CreateEvent(<<>>, body("Hackathon", "u1")),
                                  body("Seminar", "u3")),
                      body("Workshop", "u1"))
  /\ notifications =
       LET row(t, u, ev) == [userId |-> u, title |-> "New Event Created",
                             message |-> ScheduledMessage(t), type |-> "event",
                             eventId |-> ev]
       IN CreateNotification(
            CreateNotification(
              CreateNotification(<<>>, row("Hackathon", "u1", 1), 0),
              row("Seminar", "u3", 2), 0),
            row("Workshop", "u1", 3), 0)
  /\ now = 0
  /\ clients = <<>>
  /\ conn = [w \in Conns |-> "idle"]
  /\ sent = [w \in Conns |-> <<>>]
  /\ lastAuth = [k \in RegistryKeys |-> 0]
  /\ superseded = {}
  /\ wsLast = NoMessage
  /\ hook = HookIdle
  /\ card = CardIdle
  /\ tokens = {SessionToken(u) : u \in UserIds}
                \cup {VerifyToken(EmailOf(u)) : u \in UserIds}
  /\ req = <<>>

\* Notification ids a request may carry: the stored rows' and one of no row.
RowInputs == {1, 2, 3, 9}

ReqMarkRead == \E t \in EventTokens, n \in RowInputs : HttpMarkRead(t, n)
ReqMarkAll == \E t \in EventTokens : HttpMarkAll(t)
ReqOrganizerEvent == HttpCreateEvent(SessionToken("u1"), TRUE, "Concert")
StepMarkReadExec == \E r \in DOMAIN req : MarkReadExec(r)
StepMarkAllList == \E r \in DOMAIN req : MarkAllList(r)
StepMarkAllWrite == \E r \in DOMAIN req : MarkAllWrite(r)

\* Rows are marked read, one by one and all of a user's at once, while u1
\* creates another event.
NextNotifications ==
  \/ ReqMarkRead
  \/ ReqMarkAll
  \/ ReqOrganizerEvent
  \/ StepMarkReadExec
  \/ StepMarkAllList
  \/ StepMarkAllWrite
  \/ StepCreateEventExec
  \/ StepCreateEventNotify
  \/ StepCreateEventPush
  \/ StepRespond

SpecNotifications == InitNotifications /\ [][NextNotifications]_vars

\* The ids of the rows markAllNotificationsRead of request r was given.
ListedIds(r) == {req[r].lrows[k].id : k \in 1..Len(req[r].lrows)}

\* C17: markAllRead(u) sets the read flag of every row that targeted u when
\* the call started and changes nothing else: no other field of those rows,
\* no row of another user, no row stored for u since; once it has returned,
\* the rows that targeted u when it started are read.
C17_MarkAllRead ==
  /\ [][\A r \in DOMAIN req :
          (req[r].pc = "authed" /\ req'[r].pc = "markall_write") =>
            ListedIds(r)' = {n \in 1..Len(notifications) :
                               notifications[n].userId = Uid(r)}]_vars
  /\ [][\A r \in DOMAIN req :
          (req[r].pc = "markall_write" /\ req'[r].pc = "done") =>
            /\ req'[r].result
            /\ DOMAIN notifications' = DOMAIN notifications
            /\ \A n \in DOMAIN notifications :
                 notifications'[n] =
                   IF n \in ListedIds(r)
                   THEN [notifications[n] EXCEPT !.read = TRUE]
                   ELSE notifications[n]]_vars
  /\ [](\A r \in DOMAIN req :
          req[r].op = "markall" /\ req[r].pc = "done" /\ req[r].status = 200 =>
            \A n \in ListedIds(r) : notifications[n].read)

\* u1's mark-all has returned while u1's next event was being created: the
\* two rows u1 had are read, u3's row and u1's new row are unread.
C17_Witness ==
  /\ \E r \in DOMAIN req :
       /\ req[r].op = "markall" /\ req[r].pc = "done"
       /\ req[r].tok = SessionToken("u1")
       /\ ListedIds(r) = {1, 3}
  /\ Len(notifications) = 4
  /\ notifications[1].read /\ notifications[3].read
  /\ ~notifications[2].read /\ ~notifications[4].read
  /\ notifications[4].userId = "u1"

(* ------------------------------------------------------------- accounts *)
\* Registration bodies: a new institutional email with either password, the
\* email of a stored user, an email of another domain, a short password.
RegisterInputs ==
  {<<"d@srec.ac.in", "secret1">>, <<"d@srec.ac.in", "secret2">>,
   <<"a@srec.ac.in", "secret1">>, <<"d@gmail.com", "secret1">>,
   <<"d@srec.ac.in", "pw">>}
\* Login bodies: a verified user, an unverified one, a new one and an email
\* nobody registered, each with two passwords.
LoginEmails == {"a@srec.ac.in", "c@srec.ac.in", "d@srec.ac.in", "d@gmail.com"}
LoginPasswords == {"secret1", "secret2"}
\* Tokens followed as verification links: the mailed tokens of the users not
\* yet verified, and a session token.
LinkTokens ==
  {t \in tokens : t.payload.email \in {"c@srec.ac.in", "d@srec.ac.in"}}
    \cup {SessionToken("u1")}

ReqRegister == \E b \in RegisterInputs : HttpRegister(b[1], b[2])
ReqLogin == \E e \in LoginEmails, p \in LoginPasswords : HttpLogin(e, p)
ReqLink == \E t \in LinkTokens : HttpVerify(t)
StepRegisterCheck == \E r \in DOMAIN req : RegisterCheck(r)
StepRegisterCreate == \E r \in DOMAIN req : RegisterCreate(r)
StepRegisterMail == \E r \in DOMAIN req : RegisterMail(r)
StepLoginUser == \E r \in DOMAIN req : LoginUser(r)
StepLoginCompare == \E r \in DOMAIN req : LoginCompare(r)

\* Registrations, verifications and logins whose sections interleave.
NextRegister ==
  \/ ReqRegister
  \/ ReqLogin
  \/ ReqLink
  \/ StepRegisterCheck
  \/ StepRegisterCreate
  \/ StepRegisterMail
  \/ StepLoginUser
  \/ StepLoginCompare
  \/ StepVerifyUser
  \/ StepVerifyRespond

SpecRegister == Populated /\ [][NextRegister]_vars

\* C11: no two stored users have the same email, also when registrations
\* for one email are in progress together.
C11_EmailsUnique ==
  \A u \in DOMAIN users, v \in DOMAIN users :
    users[u].email = users[v].email => u = v

\* The login requests that have been answered.
LoginsDone == {r \in DOMAIN req : req[r].op = "login" /\ req[r].pc = "done"}

\* The link mailed to email has been followed and answered 200.
LinkUsed(email) ==
  \E q \in DOMAIN req :
    /\ req[q].op = "verify" /\ req[q].pc = "done" /\ req[q].status = 200
    /\ req[q].tok.payload.email = email

\* C13: a login is answered 200 with a session credential only for a stored,
\* verified user whose password matches, and then the credential is that
\* user's; 403 without credential whenever the user found is not verified;
\* 401 without credential for an unknown email and for a verified user's
\* wrong password; a login arriving after the email's link was used finds
\* the user verified, so that the right password is answered 200.
C13_LoginCredential ==
  /\ [](\A r \in LoginsDone :
         LET u == req[r].luser IN
           /\ req[r].status \in {200, 401, 403}
           /\ (req[r].status = 200) = (req[r].issued # NoToken)
           /\ req[r].status = 200 =>
                /\ Found(u)
                /\ u[1].id \in DOMAIN users
                /\ users[u[1].id].email = req[r].email
                /\ users[u[1].id].isVerified
                /\ Compare(req[r].password, users[u[1].id].password)
                /\ req[r].issued = SessionToken(u[1].id)
                /\ req[r].issued \in tokens
           /\ ~Found(u) => req[r].status = 401
           /\ Found(u) /\ ~u[1].isVerified => req[r].status = 403
           /\ Found(u) /\ u[1].isVerified =>
                req[r].status =
                  IF Compare(req[r].password, u[1].password) THEN 200 ELSE 401)
  /\ [](\A t \in tokens :
         t.payload.userId # Undefined =>
           /\ t.payload.userId \in DOMAIN users
           /\ users[t.payload.userId].isVerified)
  /\ [][(Len(req') = Len(req) + 1 /\ req'[Len(req')].op = "login") =>
         LET n == req'[Len(req')]
             holders == {u \in DOMAIN users : users[u].email = n.email}
         IN /\ Found(n.luser) = (holders # {})
            /\ Found(n.luser) =>
                 /\ n.luser[1].id \in holders
                 /\ n.luser[1] = users[n.luser[1].id]
            /\ LinkUsed(n.email) => Found(n.luser) /\ n.luser[1].isVerified]_vars

\* u3, registered and not verified, follows the mailed link and then logs in
\* with the registered password: 200 and u3's session credential.
C13_Witness ==
  /\ Len(req) = 2
  /\ req[1].op = "verify" /\ req[1].tok = VerifyToken(EmailOf("u3"))
  /\ req[1].status = 200
  /\ req[2].op = "login" /\ req[2].email = EmailOf("u3")
  /\ req[2].password = PasswordOf("u3")
  /\ req[2].pc = "done" /\ req[2].status = 200
  /\ req[2].issued = SessionToken("u3")

\* Bodies of PATCH /auth/profile: a new name, an email of another domain,
\* another id, another creation date.
ProfileBodies ==
  {[name |-> "renamed"], [email |-> "d@gmail.com"], [id |-> "u9"],
   [createdAt |-> 99]}
ProfileTokens == {SessionToken("u1"), StaleToken}

ReqProfile == \E t \in ProfileTokens, b \in ProfileBodies : HttpProfile(t, b)
StepProfileExec == \E r \in DOMAIN req : ProfileExec(r)

\* Registrations, verifications, logins and profile updates.
NextAccounts ==
  \/ NextRegister
  \/ ReqProfile
  \/ StepProfileExec
  \/ StepRejected

SpecAccounts == Populated /\ [][NextAccounts]_vars

\* C14: the email of every stored user ends with @srec.ac.in, whatever
\* registrations, verifications, logins and profile updates have run.
C14_EmailsInstitutional ==
  \A u \in DOMAIN users : EndsWithSrec(users[u].email)

\* C15: no step changes the id or the createdAt of a stored user, whatever
\* fields the updates of updateUser carry.
C15_IdAndCreatedAtKept ==
  [][\A u \in DOMAIN users :
       /\ users'[u].id = users[u].id
       /\ users'[u].createdAt = users[u].createdAt]_vars

(* -------------------------------------------------- unknown entities *)
\* Bearer tokens, club names and event ids of the requests: two users and
\* the user of an earlier run, a club and an event that exist and one of each
\* that do not.
RelationTokens == {SessionToken("u1"), SessionToken("u2"), StaleToken}
RelationClubs == {"Coding Club", "Chess Club"}

ReqRelJoin == \E t \in RelationTokens, c \in RelationClubs : HttpJoin(t, c)
ReqRelLeave == \E t \in RelationTokens, c \in RelationClubs : HttpLeave(t, c)
ReqRelRsvp == \E t \in RelationTokens, e \in EventInputs : HttpRsvp(t, e, "attending")
ReqRelUnrsvp == \E t \in RelationTokens, e \in EventInputs : HttpUnrsvp(t, e)
\* u1 changes the id of its stored user, after which req.user.id of u1's
\* requests is the id of no stored user.
ReqProfileId == HttpProfile(SessionToken("u1"), [id |-> "u9"])

\* Join, leave, RSVP and un-RSVP requests on entities that exist and that do
\* not, interleaved.
NextRelations ==
  \/ ReqRelJoin
  \/ ReqRelLeave
  \/ ReqRelRsvp
  \/ ReqRelUnrsvp
  \/ ReqProfileId
  \/ StepProfileExec
  \/ StepRsvpExec
  \/ StepUnrsvpExec
  \/ ClubSteps

SpecRelations == InitRsvp /\ [][NextRelations]_vars

\* Request r, past authenticateToken, names an entity the store does not
\* hold: for a join or a leave the club or the user of req.user.id, for an
\* RSVP (of a valid type) or an un-RSVP the event.
UnknownEntity(r) ==
  /\ Found(req[r].user)
  /\ \/ /\ req[r].op \in {"join", "leave"}
        /\ req[r].club \notin DOMAIN clubs \/ Uid(r) \notin DOMAIN users
     \/ /\ req[r].op = "rsvp" /\ req[r].kind \in RsvpKinds
        /\ req[r].event \notin DOMAIN events
     \/ /\ req[r].op = "unrsvp"
        /\ req[r].event \notin DOMAIN events

\* C19: no step of a join, leave, RSVP or un-RSVP on an unknown entity
\* changes the store, the store call returns false, and the request is
\* answered 404.
C19_UnknownEntity ==
  /\ [][\A r \in DOMAIN req :
          UnknownEntity(r) /\ req'[r] # req[r] =>
            /\ UNCHANGED storeVars
            /\ req'[r].pc \in {"respond", "done"} => ~req'[r].result]_vars
  /\ [](\A r \in DOMAIN req :
          UnknownEntity(r) /\ req[r].pc = "done" => req[r].status = 404)

\* A join of a club that exists, by a caller whose id is the id of no stored
\* user since the caller's profile update, has been answered 404 and the
\* memberships are those of the start.
C19_Witness ==
  \E r \in DOMAIN req, q \in DOMAIN req :
    /\ req[r].op = "profile" /\ req[r].status = 200
    /\ req[q].op = "join" /\ req[q].club = "Coding Club"
    /\ Found(req[q].user) /\ Uid(q) = "u9"
    /\ req[q].pc = "done" /\ req[q].status = 404
    /\ arrays = JoinedArrays

(* ------------------------------------------------------ protocol errors *)
\* Frames a client sends: one that is not JSON, one of another type, an auth
\* frame with u1's session token, with an expired one and with a forged one.
ProtocolMessages ==
  {Malformed, OtherFrame, AuthFrame(SessionToken("u1")),
   AuthFrame(ExpiredToken("u1")), AuthFrame(ForgedToken("u1"))}

FrameSeen == \E w \in Conns, m \in ProtocolMessages : WsMessageSeen(w, m)

\* Connections open, send frames of every kind and close while u1 creates
\* events.
NextProtocol ==
  \/ Connect
  \/ FrameSeen
  \/ Close
  \/ ReqCreateEvent
  \/ StepCreateEventExec
  \/ StepCreateEventNotify
  \/ StepCreateEventPush

SpecProtocol == Populated /\ [][NextProtocol]_vars

\* The last frame handled was not valid JSON / was an auth frame whose token
\* failed verification.
LastMalformed == wsLast.kind = "malformed"
LastAuthFailed ==
  wsLast.kind = "auth" /\ wsLast.token.present /\ JwtVerifyThrows(wsLast.token)

\* C20: once a connection's frame that is not valid JSON, or its auth frame
\* whose token fails verification, has been handled, the server has closed
\* that connection; and every frame the server has sent is a notification.
C20_ProtocolErrorsClose ==
  /\ (LastMalformed \/ LastAuthFailed) => conn[wsLast.ws] \in {"closing", "closed"}
  /\ \A w \in Conns : \A i \in 1..Len(sent[w]) : sent[w][i].type = "notification"

\* The registry entries this step adds or rewrites.
NewEntries == {j \in 1..Len(clients') :
                 \A i \in 1..Len(clients) : clients[i] # clients'[j]}

\* C21: a push for user X puts a frame only on the connection the registry
\* holds for X, and only while it is open; an entry for a connection enters
\* the registry only when that connection's auth frame carries a token that
\* jwt.verify accepts, so a connection without such a frame is never in the
\* registry and is never sent a frame.
C21_PushRegisteredOpen ==
  /\ [][\A r \in DOMAIN req :
          PushRuns(r) =>
            \A w \in Conns :
              sent'[w] # sent[w] =>
                /\ MapGet(clients, Uid(r)) = <<w>>
                /\ conn[w] = "open"
                /\ lastAuth[Uid(r)] = w]_vars
  /\ [][\A w \in Conns :
          sent'[w] # sent[w] => \E r \in DOMAIN req : PushRuns(r)]_vars
  /\ [][\A j \in NewEntries :
          /\ wsLast'.ws = clients'[j].ws
          /\ wsLast'.kind = "auth" /\ wsLast'.token.present
          /\ ~JwtVerifyThrows(wsLast'.token)
          /\ clients'[j].key = wsLast'.token.payload.userId
          /\ lastAuth'[clients'[j].key] = clients'[j].ws]_vars
  /\ [](\A i \in 1..Len(clients) : lastAuth[clients[i].key] = clients[i].ws)

\* Connection 1 authenticated as u1 and was sent the push of u1's event;
\* connection 2, open as well, has sent a frame that is no auth frame, is not
\* in the registry and was sent nothing.
C21_Witness ==
  /\ conn[1] = "open" /\ conn[2] = "open"
  /\ MapGet(clients, "u1") = <<1>>
  /\ EntriesOf(clients, 2) = {}
  /\ \A k \in RegistryKeys : lastAuth[k] # 2
  /\ wsLast.ws = 2 /\ wsLast.kind \in {"malformed", "other"}
  /\ Len(sent[1]) = 1
  /\ sent[2] = <<>>

(* ---------------------------------------------------------------- inbox *)
\* InitNotifications with rows stamped by a clock that moved: u1's rows at 1
\* and 0, u3's row at 2.
InitInbox ==
  /\ users = [u \in UserIds |-> [RegisteredUser(u) EXCEPT !.isVerified = TRUE]]
  /\ arrays = JoinedArrays
  /\ clubs = [c \in ClubNames |-> [name |-> c, members |-> ClubRef(c)]]
  /\ events =
       LET body(t, u) == [title |-> t, club |-> Undefined, type |-> Undefined,
                          organizerId |-> u]
       IN CreateEvent(CreateEvent(CreateEvent(<<>>, body("Hackathon", "u1")),
                                  body("Seminar", "u3")),
                      body("Workshop", "u1"))
  /\ notifications =
       LET row(t, u, ev) == [userId |-> u, title |-> "New Event Created",
                             message |-> ScheduledMessage(t), type |-> "event",
                             eventId |-> ev]
       IN CreateNotification(
            CreateNotification(
              CreateNotification(<<>>, row("Hackathon", "u1", 1), 1),
              row("Seminar", "u3", 2), 2),
            row("Workshop", "u1", 3), 0)
  /\ now = 0
  /\ clients = <<>>
  /\ conn = [w \in Conns |-> "idle"]
  /\ sent = [w \in Conns |-> <<>>]
  /\ lastAuth = [k \in RegistryKeys |-> 0]
  /\ superseded = {}
  /\ wsLast = NoMessage
  /\ hook = HookIdle
  /\ card = CardIdle
  /\ tokens = {SessionToken(u) : u \in UserIds}
                \cup {VerifyToken(EmailOf(u)) : u \in UserIds}
  /\ req = <<>>

ReqListNotifications == \E t \in EventTokens : HttpListNotifications(t)
StepListNotificationsExec == \E r \in DOMAIN req : ListNotificationsExec(r)

\* Notifications are listed while u1 creates another event and the clock is
\* set.
NextInbox ==
  \/ ReqListNotifications
  \/ StepListNotificationsExec
  \/ ReqOrganizerEvent
  \/ StepCreateEventExec
  \/ StepCreateEventNotify
  \/ StepCreateEventPush
  \/ ClockSet

SpecInbox == InitInbox /\ [][NextInbox]_vars

\* Request r's listing runs in this step.
ListingRuns(r) ==
  /\ req[r].op = "listnotifications"
  /\ req[r].pc = "authed" /\ req'[r].pc = "done" /\ req'[r].status = 200

\* C22: listNotifications(u) returns each stored row whose target is u once
\* and no other row, and of two adjacent rows of the result the earlier
\* one's createdAt is not older than the later one's.
C22_ListNewestFirst ==
  /\ [][\A r \in DOMAIN req :
          ListingRuns(r) =>
            LET out == req'[r].list IN
              /\ {out[i] : i \in 1..Len(out)} =
                   {notifications[n] : n \in {m \in 1..Len(notifications) :
                                               notifications[m].userId = Uid(r)}}
              /\ \A i \in 1..Len(out), j \in 1..Len(out) :
                   out[i].id = out[j].id => i = j]_vars
  /\ [](\A r \in DOMAIN req :
          req[r].op = "listnotifications" /\ req[r].status = 200 =>
            \A i \in 1..(Len(req[r].list) - 1) :
              req[r].list[i].createdAt >= req[r].list[i + 1].createdAt)

\* u1 has created an event when the clock stood at 2 and then listed its
\* notifications: three rows, the newest first, with the dates 2, 1, 0.
C22_Witness ==
  /\ Len(req) = 2
  /\ req[2].op = "listnotifications" /\ req[2].status = 200
  /\ req[2].tok = SessionToken("u1")
  /\ Len(req[2].list) = 3
  /\ req[2].list[1].id = 4 /\ req[2].list[1].createdAt = 2
  /\ req[2].list[2].id = 1 /\ req[2].list[2].createdAt = 1
  /\ req[2].list[3].id = 3 /\ req[2].list[3].createdAt = 0

(* ---------------------------------------------------------- event kinds *)
\* Bodies insertEventSchema accepts: club is a nullable text and type a text
\* with a default, each present or absent.
EventBodies ==
  {<<>>, [club |-> "Coding Club"], [type |-> "club"], [type |-> "college"],
   [club |-> "Coding Club", type |-> "club"],
   [club |-> "Coding Club", type |-> "college"]}

ReqEventKind ==
  \E b \in EventBodies : HttpCreateEventWith(SessionToken("u1"), "Hackathon", b)

\* u1 creates events with and without a club and a type.
NextEventKinds ==
  \/ ReqEventKind
  \/ StepCreateEventExec
  \/ StepCreateEventNotify
  \/ StepCreateEventPush

SpecEventKinds == InitEvents /\ [][NextEventKinds]_vars

\* C23: every stored event has type club when its club is set and type
\* college when it has no club.
C23_TypeAgreesWithClub ==
  \A e \in DOMAIN events :
    events[e].type = (IF events[e].club # Undefined THEN "club" ELSE "college")

(* ------------------------------------------------------- reconnection *)
StepSockOpen == \E i \in 1..Len(hook.socks) : SockOpen(i)
StepSockClose == \E i \in 1..Len(hook.socks) : SockClose(i)
StepTimerFire == \E t \in 1..Len(hook.timers) : TimerFire(t)

\* The hook of one client: its sockets are accepted or refused and closed,
\* its timers fire, and it is unmounted at any time.
NextHook ==
  \/ HookMount
  \/ StepSockOpen
  \/ StepSockClose
  \/ StepTimerFire
  \/ HookUnmount

SpecHook == Populated /\ [][NextHook]_vars

\* C24: the client makes no more than five reconnection attempts, whether
\* the server refuses the new connections or accepts and then closes them,
\* and the delay of every reconnect timer is min(1000 * 2^n, 30000) ms for
\* the n-th attempt counted, so at most 30 seconds.
C24_ReconnectCapped ==
  /\ hook.tries <= MaxReconnectAttempts
  /\ hook.attempts <= MaxReconnectAttempts
  /\ \A t \in 1..Len(hook.timers) :
       /\ hook.timers[t].delay <= DelayCap
       /\ \E n \in 1..MaxReconnectAttempts : hook.timers[t].delay = Delay(n)

\* C30: once disconnect() has run on unmount, no reconnect timer is pending,
\* none is scheduled and no socket is created.
C30_QuietAfterDisconnect ==
  /\ [](hook.phase = "unmounted" =>
          \A t \in 1..Len(hook.timers) : ~hook.timers[t].pending)
  /\ [][hook.phase = "unmounted" =>
          /\ Len(hook'.timers) = Len(hook.timers)
          /\ Len(hook'.socks) = Len(hook.socks)]_vars

(* ------------------------------------------ overlapping join and leave *)
\* C25: when join and leave requests that overlapped in time have all been
\* answered, a user lists a club iff the club lists the user.
C25_MirrorAfterOverlap ==
  (Len(req) >= 2 /\ Quiet) =>
    \A u \in DOMAIN users, c \in DOMAIN clubs :
      UserHasClub(u, c) <=> ClubHasUser(c, u)

(* ---------------------------------------------- switching through the card *)
\* The users whose card is clicked: u2 has answered attending, u1 interested.
CardUsers == {"u1", "u2"}

ReqCardMutate == \E u \in CardUsers, k \in RsvpKinds : CardMutate(u, 1, k)
StepCardAfterDelete == CardAfterDelete
StepCardAfterPost == CardAfterPost

\* Clicks on the card of the stored event and the requests they send, with a
\* listing of the events at any moment.
NextCard ==
  \/ ReqCardMutate
  \/ StepCardAfterDelete
  \/ StepCardAfterPost
  \/ StepRsvpExec
  \/ StepUnrsvpExec
  \/ StepRespond
  \/ ReqListEvents
  \/ StepListEventsExec

SpecCard == InitListing /\ [][NextCard]_vars

\* The mutation on the card changes an answer into the other.
CardSwitches ==
  /\ card.phase # "idle"
  /\ \/ card.isAttending /\ card.type = "interested"
     \/ card.isInterested /\ card.type = "attending"

\* C26: while, and after, the card switches a user from one answer to the
\* other, the user is in one of the event's two lists in every state.
C26_SwitchNeverCleared ==
  CardSwitches =>
    \/ Includes(events[card.event].attendees, card.user)
    \/ Includes(events[card.event].interested, card.user)

(* ------------------------------------------------------------ fixed role *)
\* Bodies of PATCH /auth/profile sent by the Student u2.
RoleBodies == {[name |-> "renamed"], [role |-> "Organizer"], [role |-> "Faculty"]}

ReqRoleProfile == \E b \in RoleBodies : HttpProfile(SessionToken("u2"), b)
ReqStudentEvent == \E v \in BOOLEAN : HttpCreateEvent(SessionToken("u2"), v, "Hackathon")

\* The requests of one user, registered as Student: profile updates and
\* event creations.
NextRole ==
  \/ ReqRoleProfile
  \/ ReqStudentEvent
  \/ StepProfileExec
  \/ StepCreateEventExec
  \/ StepCreateEventNotify
  \/ StepCreateEventPush

SpecRole == InitEvents /\ [][NextRole]_vars

\* C27: whatever requests u2, registered as Student, has sent, the stored
\* role of u2 is Student, every POST /events by u2 that was answered was
\* answered 403, and no stored event has u2 as its organizer.
C27_RoleFixed ==
  /\ users["u2"].role = RegisteredUser("u2").role
  /\ \A r \in DOMAIN req :
       (req[r].op = "create" /\ req[r].pc = "done") => req[r].status = 403
  /\ \A e \in DOMAIN events : events[e].organizerId # "u2"

(* --------------------------------------------------- marking one row read *)
\* C28: a POST /notifications/:id/read changes the read flag of a row only
\* when the row's target user is the authenticated caller.
C28_MarkReadOwnOnly ==
  [][\A r \in DOMAIN req :
       (req[r].op = "markread" /\ req[r].pc = "authed" /\ req'[r].pc = "respond") =>
         \A n \in DOMAIN notifications :
           notifications'[n].read # notifications[n].read =>
             notifications[n].userId = Uid(r)]_vars

(* ------------------------------------------------- registration answered 400 *)
\* C29: a registration that was answered 400 stored no user.
C29_ErrorStoresNothing ==
  \A r \in DOMAIN req :
    (req[r].op = "register" /\ req[r].pc = "done" /\ req[r].status = 400) =>
      ~Found(req[r].user)

(* ------------------------------------------------------------ the server *)
\* Every operation of the server, from the state after construction.
Next ==
  \/ NextAccounts
  \/ NextEvents
  \/ NextNotifications
  \/ NextClub
  \/ NextListing
  \/ NextRelations
  \/ NextLive
  \/ NextProtocol
  \/ NextInbox
  \/ NextHook
  \/ NextEventKinds
  \/ NextCard
  \/ NextRole
  \/ NextCred

Spec == Init /\ [][Next]_vars

====
